---------------------------- MODULE Spec2Model ----------------------------
(***************************************************************************)
(* Model of basic_features/mod_data_mapping_checker.py: the pattern based  *)
(* check (CheckTreeWalker) and repair (FixTreeWalker) of a mod file tree,  *)
(* with the mappings basic_features/mod_requirement_mapping.py adds to the *)
(* rules for a mod requirement.                                            *)
(*                                                                         *)
(* Strings are sequences of one-character strings.  The platform is the    *)
(* one of the doctests of the repository (ntpath): the separator is the    *)
(* backslash and the slash is accepted as alternative separator.  Letter   *)
(* case is not modelled (all names are lower case).                        *)
(***************************************************************************)
EXTENDS Integers, Sequences, FiniteSets, TLC

(***************************************************************************)
(* Bounds of the model.                                                    *)
(***************************************************************************)
MaxNodes == 4

(***************************************************************************)
(* Strings and paths (os.path = ntpath, fnmatch, pathlib.PurePath).        *)
(***************************************************************************)
Sep == "\\"

AltSep == "/"

IsSep(c) == c = Sep \/ c = AltSep

\* os.path.normcase without the case folding: "/" becomes "\".
NormCase(s) == [i \in 1..Len(s) |-> IF s[i] = AltSep THEN Sep ELSE s[i]]

\* The components of a path, split at every separator (empty ones included).
RECURSIVE SplitComps(_, _, _)
SplitComps(s, cur, acc) ==
    IF s = <<>> THEN Append(acc, cur)
    ELSE IF IsSep(Head(s)) THEN SplitComps(Tail(s), <<>>, Append(acc, cur))
    ELSE SplitComps(Tail(s), Append(cur, Head(s)), acc)

Comps(s) == SplitComps(s, <<>>, <<>>)

RECURSIVE JoinComps(_)
JoinComps(cs) ==
    IF cs = <<>> THEN <<>>
    ELSE IF Len(cs) = 1 THEN cs[1]
    ELSE cs[1] \o <<Sep>> \o JoinComps(Tail(cs))

Dot == <<".">>

DotDot == <<".", ".">>

\* The component stack of normpath: "" and "." are dropped, ".." pops.
RECURSIVE NormComps(_, _)
NormComps(cs, acc) ==
    IF cs = <<>> THEN acc
    ELSE LET c == Head(cs) IN
         IF c = <<>> \/ c = Dot THEN NormComps(Tail(cs), acc)
         ELSE IF c = DotDot /\ acc # <<>> /\ acc[Len(acc)] # DotDot
              THEN NormComps(Tail(cs), SubSeq(acc, 1, Len(acc) - 1))
         ELSE NormComps(Tail(cs), Append(acc, c))

\* os.path.normpath for relative paths.
Normpath(s) ==
    LET cs == NormComps(Comps(s), <<>>) IN
    IF cs = <<>> THEN Dot ELSE JoinComps(cs)

\* The index of the last separator of s, 0 when there is none.
LastSepIndex(s) ==
    LET idx == {i \in 1..Len(s) : IsSep(s[i])} IN
    IF idx = {} THEN 0 ELSE CHOOSE i \in idx : \A j \in idx : j <= i

RECURSIVE RStripSeps(_)
RStripSeps(s) ==
    IF s # <<>> /\ IsSep(s[Len(s)]) THEN RStripSeps(SubSeq(s, 1, Len(s) - 1)) ELSE s

\* os.path.split: <<head, tail>>, the head without its trailing separators
\* unless it consists of separators only.
PathSplit(s) ==
    LET i == LastSepIndex(s)
        head == SubSeq(s, 1, i)
        tail == SubSeq(s, i + 1, Len(s))
        stripped == RStripSeps(head)
    IN  <<IF stripped = <<>> THEN head ELSE stripped, tail>>

\* os.path.join of two relative paths.
PathJoin(a, b) ==
    IF a = <<>> THEN b
    ELSE IF IsSep(a[Len(a)]) THEN a \o b
    ELSE a \o <<Sep>> \o b

\* normpath_with_slash: os.path.normpath that keeps a trailing separator and
\* gives "" instead of "." for the empty path.
NormpathWithSlash(path) ==
    LET ht == PathSplit(path) IN
    IF ht[1] # <<>> THEN PathJoin(Normpath(ht[1]), ht[2]) ELSE ht[2]

\* The regular expression fnmatch.translate builds, for "*", "?" and literals.
RECURSIVE GlobMatch(_, _)
GlobMatch(s, p) ==
    IF p = <<>> THEN s = <<>>
    ELSE IF Head(p) = "*"
         THEN GlobMatch(s, Tail(p)) \/ (s # <<>> /\ GlobMatch(Tail(s), p))
    ELSE IF Head(p) = "?" THEN s # <<>> /\ GlobMatch(Tail(s), Tail(p))
    ELSE s # <<>> /\ Head(s) = Head(p) /\ GlobMatch(Tail(s), Tail(p))

\* fnmatch.fnmatch: both sides through normcase, then the whole name matched.
Fnmatch(name, pat) == GlobMatch(NormCase(name), NormCase(pat))

\* pathlib.PurePath(p).parts for a relative path.
RECURSIVE DropEmpty(_)
DropEmpty(cs) ==
    IF cs = <<>> THEN <<>>
    ELSE IF Head(cs) = <<>> \/ Head(cs) = Dot THEN DropEmpty(Tail(cs))
    ELSE <<Head(cs)>> \o DropEmpty(Tail(cs))

Parts(p) == DropEmpty(Comps(p))

\* is_relative_to(PurePath(pattern), entry_path): the parts of entry_path are a
\* prefix of the parts of the pattern.
IsRelativeTo(pattern, entry_path) ==
    LET pp == Parts(pattern)
        ep == Parts(entry_path)
    IN  Len(ep) <= Len(pp) /\ SubSeq(pp, 1, Len(ep)) = ep

(***************************************************************************)
(* File trees (mobase.IFileTree, mobase.FileTreeEntry).  A tree is a       *)
(* function from node identities to [name, dir, parent]; node 0 is the     *)
(* tree handed to the checker, NoNode stands for None (no parent).         *)
(***************************************************************************)
NoNode == -1

RootNode == 0

Children(t, d) == {n \in DOMAIN t : t[n].parent = d}

\* entry.isDir()
IsDir(t, n) == t[n].dir

\* The entry named nm in directory d, NoNode when there is none.
ChildNamed(t, d, nm) ==
    LET cs == {c \in Children(t, d) : t[c].name = nm} IN
    IF cs = {} THEN NoNode ELSE CHOOSE c \in cs : TRUE

Alphabet == <<"*", ".", "?", "a", "b", "e", "m", "r", "t", "u", "v", "w", "x", "y", "z">>

CharRank(c) == CHOOSE i \in 1..Len(Alphabet) : Alphabet[i] = c

RECURSIVE NameLess(_, _)
NameLess(a, b) ==
    IF b = <<>> THEN FALSE
    ELSE IF a = <<>> THEN TRUE
    ELSE IF Head(a) = Head(b) THEN NameLess(Tail(a), Tail(b))
    ELSE CharRank(Head(a)) < CharRank(Head(b))

\* The order of the entries of a directory: directories first, then by name.
EntryBefore(t, a, b) ==
    IF t[a].dir # t[b].dir THEN t[a].dir ELSE NameLess(t[a].name, t[b].name)

RECURSIVE SortEntries(_, _)
SortEntries(t, S) ==
    IF S = {} THEN <<>>
    ELSE LET first == CHOOSE a \in S : \A b \in S \ {a} : EntryBefore(t, a, b)
         IN  <<first>> \o SortEntries(t, S \ {first})

\* The entries of directory d in iteration order.
Entries(t, d) == SortEntries(t, Children(t, d))

\* Whether a is n or an ancestor of n.
RECURSIVE IsAncestorOrSelf(_, _, _)
IsAncestorOrSelf(t, a, n) ==
    IF n = NoNode THEN FALSE
    ELSE IF n = a THEN TRUE
    ELSE IsAncestorOrSelf(t, a, t[n].parent)

\* The path (sequence of names) from tree r down to n, n below r.
RECURSIVE NamesFrom(_, _, _)
NamesFrom(t, r, n) ==
    IF n = r \/ n = NoNode THEN <<>>
    ELSE Append(NamesFrom(t, r, t[n].parent), t[n].name)

\* The nodes below tree r.
Below(t, r) == {n \in DOMAIN t : n # r /\ IsAncestorOrSelf(t, r, n)}

\* The structure of tree r: the path and kind of every node below it.
Content(t, r) == {<<NamesFrom(t, r, n), t[n].dir>> : n \in Below(t, r)}

\* A detach that leaves the entry where it is.
DetachKeeps(t, n) == t

\* entry.detach()
Detach(t, n) == [t EXCEPT ![n].parent = NoNode]

FreshNode(t) == 1 + CHOOSE m \in DOMAIN t : \A n \in DOMAIN t : n <= m

\* A creation of the folders of a path that replaces the folders there.
RECURSIVE MakeDirsAnew(_, _, _)
MakeDirsAnew(t, d, parts) ==
    IF parts = <<>> THEN [t |-> t, dir |-> d]
    ELSE LET c == ChildNamed(t, d, Head(parts))
             f == FreshNode(t)
             t1 == IF c = NoNode THEN t ELSE Detach(t, c)
             t2 == [n \in DOMAIN t \cup {f} |->
                       IF n = f
                       THEN [name |-> Head(parts), dir |-> TRUE, parent |-> d]
                       ELSE t1[n]]
         IN  MakeDirsAnew(t2, f, Tail(parts))

\* The directory reached from d along parts, missing directories created;
\* [t, dir], dir = NoNode when a part names a file.
RECURSIVE MakeDirs(_, _, _)
MakeDirs(t, d, parts) ==
    IF parts = <<>> THEN [t |-> t, dir |-> d]
    ELSE LET c == ChildNamed(t, d, Head(parts)) IN
         IF c = NoNode
         THEN LET f == FreshNode(t)
                  t2 == [n \in DOMAIN t \cup {f} |->
                            IF n = f
                            THEN [name |-> Head(parts), dir |-> TRUE, parent |-> d]
                            ELSE t[n]]
              IN  MakeDirs(t2, f, Tail(parts))
         ELSE IF t[c].dir THEN MakeDirs(t, c, Tail(parts))
         ELSE [t |-> t, dir |-> NoNode]

\* Insertion of entry e under the name nm into directory d, InsertPolicy.MERGE:
\* a directory is merged into an existing directory, anything else replaces
\* the existing entry.
RECURSIVE InsertMerge(_, _, _, _)
RECURSIVE MergeAll(_, _, _)
InsertMerge(t, d, e, nm) ==
    LET x == ChildNamed(t, d, nm) IN
    IF x = e THEN t
    ELSE IF x = NoNode THEN [t EXCEPT ![e].parent = d, ![e].name = nm]
    ELSE IF t[x].dir /\ t[e].dir
         THEN Detach(MergeAll(t, Children(t, e), x), e)
    ELSE [Detach(t, x) EXCEPT ![e].parent = d, ![e].name = nm]

MergeAll(t, cs, d) ==
    IF cs = {} THEN t
    ELSE LET c == CHOOSE k \in cs : TRUE IN
         MergeAll(InsertMerge(t, d, c, t[c].name), cs \ {c}, d)

\* root_tree.move(entry, path, policy=MERGE): a path ending in a separator
\* names the folder to move into.  Nothing changes when the move fails.
TreeMove(t, root, e, path) ==
    LET full == IF path = <<>> \/ IsSep(path[Len(path)])
                THEN path \o t[e].name ELSE path
        parts == Parts(full)
        made == MakeDirs(t, root, SubSeq(parts, 1, Len(parts) - 1))
    IN  IF (t[e].dir /\ IsAncestorOrSelf(t, e, root)) \/ parts = <<>>
           \/ made.dir = NoNode \/ IsAncestorOrSelf(made.t, e, made.dir)
        THEN t
        ELSE InsertMerge(made.t, made.dir, e, parts[Len(parts)])

\* A pruning that removes nothing.
RemoveNothing(t, n) == t

\* A removal of the empty tree that leaves its parents alone.
RemoveEmptyTreeOnly(t, n) ==
    IF n # NoNode /\ Children(t, n) = {} THEN Detach(t, n) ELSE t

\* remove_empty_tree_and_parents: detach the tree and its parents while empty.
RECURSIVE RemoveEmptyTreeAndParents(_, _)
RemoveEmptyTreeAndParents(t, n) ==
    IF n # NoNode /\ Children(t, n) = {}
    THEN RemoveEmptyTreeAndParents(Detach(t, n), t[n].parent)
    ELSE t

\* The targets of a mapping that are not strings: None (keep) and a
\* function (EntrySortFunction).  No path is made of such an element.
NoneTarget == <<"None">>

FunctionTarget == <<"function">>

IsStr(target) == target \notin {NoneTarget, FunctionTarget}

(***************************************************************************)
(* Mappings (a dict: keys in insertion order) and the mappings of a mod    *)
(* requirement (ModRequirementMapping, subfolder_mappings).                *)
(***************************************************************************)
Map(pattern, target) == [pattern |-> pattern, target |-> target]

Keys(mapping) == {mapping[i].pattern : i \in 1..Len(mapping)}

\* mapping[key] = value: a known key keeps its place and takes the value, a
\* new key comes last.
DictSet(mapping, key, value) ==
    IF key \in Keys(mapping)
    THEN [i \in 1..Len(mapping) |->
             IF mapping[i].pattern = key THEN Map(key, value) ELSE mapping[i]]
    ELSE Append(mapping, Map(key, value))

\* mapping.update(other)
RECURSIVE DictUpdate(_, _)
DictUpdate(mapping, other) ==
    IF other = <<>> THEN mapping
    ELSE DictUpdate(DictSet(mapping, Head(other).pattern, Head(other).target),
                    Tail(other))

\* os.path.join(*parts)
RECURSIVE JoinAll(_)
JoinAll(parts) ==
    IF Len(parts) = 1 THEN parts[1]
    ELSE PathJoin(parts[1], JoinAll(Tail(parts)))

\* A loop that adds no key.
AddSuffixesNone(mapping, parts, i, file_pattern, target_folder) == mapping

\* The loop of subfolder_mappings, "for i in range(1, len(parts))", from i on.
RECURSIVE AddSuffixes(_, _, _, _, _)
AddSuffixes(mapping, parts, i, file_pattern, target_folder) ==
    IF i >= Len(parts) THEN mapping
    ELSE AddSuffixes(
             DictSet(mapping,
                     JoinAll(Append(SubSeq(parts, i + 1, Len(parts)), file_pattern)),
                     target_folder),
             parts, i + 1, file_pattern, target_folder)

\* An expansion that only keeps the source pattern.
SubfolderMappingsKeepOnly(source_pattern, mapping) ==
    DictSet(mapping, Normpath(source_pattern), <<>>)

\* subfolder_mappings(source_pattern, mapping=mapping), target_folder None.
SubfolderMappings(source_pattern, mapping) ==
    LET pattern == Normpath(source_pattern)
        source_folder == PathSplit(pattern)[1]
        file_pattern == PathSplit(pattern)[2]
        target_folder == PathJoin(source_folder, <<>>)
        kept == DictSet(mapping, pattern, <<>>)
        suffixed == AddSuffixes(kept, Parts(source_folder), 1, file_pattern,
                                target_folder)
    IN  IF file_pattern # <<>> /\ file_pattern # <<"*">>
        THEN DictSet(suffixed, file_pattern, target_folder)
        ELSE suffixed

\* subfolder_mappings: the target folder written, for target_folder None
\* (derived from the folder of the normalised source pattern) or given.
TargetFolder(source_folder, target_folder) ==
    IF target_folder = NoneTarget THEN PathJoin(source_folder, <<>>)
    ELSE NormpathWithSlash(target_folder)

\* ModRequirementMapping._add_to_mappings
RECURSIVE AddToMappings(_, _, _)
AddToMappings(mapping, patterns, add_subfolder_mappings) ==
    IF patterns = <<>> THEN mapping
    ELSE AddToMappings(
             IF add_subfolder_mappings
             THEN SubfolderMappings(Head(patterns), mapping)
             ELSE DictSet(mapping, Normpath(Head(patterns)), <<>>),
             Tail(patterns), add_subfolder_mappings)

\* ModRequirementMapping.update_mapping with the default flags and no
\* custom_mapping: the archive_mapping of the requirement.
ArchiveMapping(req) ==
    AddToMappings(AddToMappings(<<>>, req.installs, FALSE), req.required_by, TRUE)

(***************************************************************************)
(* The search of a requirement's patterns in the virtual file system       *)
(* (mod_requirement.find on mobase.IOrganizer); the file system is a tree. *)
(***************************************************************************)
\* The directory of tree t at the path with components cs from d on, NoNode
\* when there is none.
RECURSIVE DirAt(_, _, _)
DirAt(t, d, cs) ==
    IF cs = <<>> THEN d
    ELSE LET n == ChildNamed(t, d, Head(cs)) IN
         IF n = NoNode \/ ~IsDir(t, n) THEN NoNode ELSE DirAt(t, n, Tail(cs))

\* organizer.findFiles(folder, file): the paths of the files of the folder
\* whose name matches the file pattern.
FindFiles(t, folder, file) ==
    LET d == DirAt(t, RootNode, Parts(folder))
        found == IF d = NoNode THEN <<>> ELSE Entries(t, d)
    IN  SelectSeq([i \in 1..Len(found) |->
                      [node |-> found[i],
                       path |-> JoinComps(NamesFrom(t, RootNode, found[i]))]],
                  LAMBDA e : ~IsDir(t, e.node) /\ Fnmatch(t[e.node].name, file))

\* organizer.listDirectories(path): the names of the folders of the folder.
ListDirectories(t, path) ==
    LET d == DirAt(t, RootNode, Parts(path))
        found == IF d = NoNode THEN <<>> ELSE Entries(t, d)
    IN  SelectSeq([i \in 1..Len(found) |-> [node |-> found[i], path |-> t[found[i]].name]],
                  LAMBDA e : IsDir(t, e.node))

\* mod_requirement.find(path, organizer): the list of files or folders found.
Find(path, t) ==
    LET folder == PathSplit(path)[1]
        file == PathSplit(path)[2]
        dirs == ListDirectories(t, PathSplit(folder)[1])
        results ==
            IF file # <<>> THEN FindFiles(t, folder, file)
            ELSE SelectSeq(dirs, LAMBDA e : Fnmatch(e.path, PathSplit(folder)[2]))
    IN  [i \in 1..Len(results) |-> results[i].path]

\* A truth value that takes every list for true.
TruthyAlways(list) == TRUE

\* The truth value all() takes of a list: it is not empty.
Truthy(list) == list # <<>>

\* An update that replaces the set by the elements of the list.
SetUpdateReplaces(set, list) == {list[i] : i \in 1..Len(list)}

\* set.update(list)
SetUpdate(set, list) == set \cup {list[i] : i \in 1..Len(list)}

(***************************************************************************)
(* Inputs: the rule sets (ignore patterns and mappings, as written by the  *)
(* plugin author, not yet normalized) and the trees.                       *)
(***************************************************************************)
\* The example of the class documentation:
\* ignore ["*.m"], {"a/*.e": "", "*.e": "a/"}.
RulesDoc ==
    [ignore_patterns |-> << <<"*", ".", "m">> >>,
     mappings |-> << Map(<<"a", "/", "*", ".", "e">>, <<>>),
                     Map(<<"*", ".", "e">>, <<"a", "/">>) >>]

\* A single move into another folder: {"a/*.e": "b/"}.
RulesMove ==
    [ignore_patterns |-> <<>>,
     mappings |-> << Map(<<"a", "/", "*", ".", "e">>, <<"b", "/">>) >>]

\* The shape of the Valheim plugin: several ignore patterns, one move.
RulesGame ==
    [ignore_patterns |-> << <<"*", ".", "t">>, <<"*", ".", "m">> >>,
     mappings |-> << Map(<<"*", ".", "e">>, <<"a", "/">>) >>]

\* The mapping of a requirement: an installed folder kept as it is, then the
\* mappings of RulesDoc.
RulesReq ==
    [ignore_patterns |-> << <<"*", ".", "m">> >>,
     mappings |-> << Map(<<"b", "/">>, <<>>),
                     Map(<<"a", "/", "*", ".", "e">>, <<>>),
                     Map(<<"*", ".", "e">>, <<"a", "/">>) >>]

\* An ignore pattern below a folder listed before the folder itself.
RulesNested ==
    [ignore_patterns |-> << <<"a", "/", "r", ".", "m">>, <<"a">> >>,
     mappings |-> << Map(<<"*", ".", "e">>, <<>>) >>]

\* Targets that name the file itself: a rename, and a target equal to the path.
RulesRename ==
    [ignore_patterns |-> <<>>,
     mappings |-> << Map(<<"a", "/", "x", ".", "e">>, <<"a", "/", "x", ".", "e">>),
                     Map(<<"x", ".", "e">>, <<"a", "/", "x", ".", "e">>) >>]

\* An ignored folder that is the target of a mapping, and two kinds of
\* files moved into folders: ignore ["a"], {"*.e": "a/", "*.t": "b/"}.
RulesIgnoreTarget ==
    [ignore_patterns |-> << <<"a">> >>,
     mappings |-> << Map(<<"*", ".", "e">>, <<"a", "/">>),
                     Map(<<"*", ".", "t">>, <<"b", "/">>) >>]

\* A function as the target of the last mapping: {"*.e": "a/", "*.t": f}.
RulesFunction ==
    [ignore_patterns |-> << <<"*", ".", "m">> >>,
     mappings |-> << Map(<<"*", ".", "e">>, <<"a", "/">>),
                     Map(<<"*", ".", "t">>, FunctionTarget) >>]

\* None (keep) as the target of the last mapping: {"a/*.e": "", "*.e": None}.
RulesNone ==
    [ignore_patterns |-> <<>>,
     mappings |-> << Map(<<"a", "/", "*", ".", "e">>, <<>>),
                     Map(<<"*", ".", "e">>, NoneTarget) >>]

\* No rules at all.
RulesEmpty == [ignore_patterns |-> <<>>, mappings |-> <<>>]

RuleSets ==
    {RulesDoc, RulesMove, RulesGame, RulesReq, RulesNested, RulesRename,
     RulesIgnoreTarget, RulesFunction, RulesNone, RulesEmpty}

\* A ModRequirement: the patterns it is required by and the ones it installs.
Requirement(required_by, installs) ==
    [required_by |-> required_by, installs |-> installs]

\* No requirement is listed, nothing is added to the mappings.
NoRequirement == Requirement(<<>>, <<>>)

\* The required_by patterns of the requirements: the shapes of the doctests
\* of subfolder_mappings, one and three folders deep, with either separator.
SourcePatterns ==
    { <<"a", "/", "b", "/", "*", ".", "e">>,
      <<"a", "/", "b", "/", "*">>,
      <<"a", "/", "b", "/">>,
      <<"a", "/", "*", ".", "e">>,
      <<"w", "\\", "a", "/", "b", "/", "*", ".", "e">>,
      <<"*", ".", "e">>,
      <<"*">> }

\* The requirements a checker is built with: one pattern each, and the
\* example of the class documentation (an installed folder).
Requirements ==
    {Requirement(<<p>>, <<>>) : p \in SourcePatterns}
        \cup {Requirement(<< <<"a", "/", "*", ".", "e">> >>, << <<"b", "/">> >>)}

\* The rule sets a checker with a requirement is built with.
BaseRuleSets == {RulesEmpty, RulesGame}

\* The requirements searched in the virtual file system: none to two
\* patterns of a file, of files of a folder and of a folder.
SearchedRequirements ==
    {Requirement(r, i) :
        r \in { <<>>,
                << <<"*", ".", "e">> >>,
                << <<"a", "/", "*", ".", "e">>, <<"*", ".", "e">> >>,
                << <<"w", "/">>, <<"a", "/", "*", ".", "e">> >> },
        i \in { <<>>,
                << <<"b", "/">> >>,
                << <<"r", ".", "m">> >>,
                << <<"b", "/">>, <<"r", ".", "m">> >>,
                << <<"a", "/", "x", ".", "e">>, <<"b", "/">> >> }}

Entry(name, dir, parent) == [name |-> name, dir |-> dir, parent |-> parent]

\* The entries a tree is drawn from; the parent is the index of a directory
\* listed earlier, 0 for the root.
Slots ==
    << Entry(<<"a">>, TRUE, 0),
       Entry(<<"b">>, TRUE, 0),
       Entry(<<"w">>, TRUE, 0),
       Entry(<<"r", ".", "m">>, FALSE, 0),
       Entry(<<"u", ".", "t">>, FALSE, 0),
       Entry(<<"x", ".", "e">>, FALSE, 0),
       Entry(<<"z", ".", "t">>, FALSE, 0),
       Entry(<<"x", ".", "e">>, FALSE, 1),
       Entry(<<"r", ".", "m">>, FALSE, 1),
       Entry(<<"x", ".", "e">>, FALSE, 2),
       Entry(<<"r", ".", "m">>, FALSE, 2),
       Entry(<<"a">>, TRUE, 3),
       Entry(<<"x", ".", "e">>, FALSE, 3),
       Entry(<<"r", ".", "m">>, FALSE, 3),
       Entry(<<"x", ".", "e">>, FALSE, 12),
       Entry(<<"b">>, TRUE, 1),
       Entry(<<"x", ".", "e">>, FALSE, 16) >>

\* The tree made of the root and the slots in S.
TreeOf(S) ==
    [n \in S \cup {RootNode} |->
        IF n = RootNode THEN Entry(<<>>, TRUE, NoNode) ELSE Slots[n]]

\* The sets of slots that form a tree of at most MaxNodes entries.
TreeShapes ==
    {S \in SUBSET (1..Len(Slots)) :
        /\ Cardinality(S) <= MaxNodes
        /\ \A n \in S : Slots[n].parent = 0 \/ Slots[n].parent \in S}

(***************************************************************************)
(* The state: the checker's rules, the tree, the walker object and the     *)
(* position of the calls dataLooksValid(tree), fix(tree) and               *)
(* dataLooksValid(fixed tree), made one after the other.                   *)
(***************************************************************************)
VARIABLES
    sm_source,        \* source_pattern of subfolder_mappings
    sm_target,        \* target_folder of subfolder_mappings
    sm_mapping,       \* mapping of subfolder_mappings
    sm_i,             \* i of "for i in range(1, len(parts))"
    sm_pc,            \* "idle", "new", "loop", "file" or "returned"
    organizer,        \* the virtual file system mobase.IOrganizer searches
    req_pc,           \* "idle", "fulfilled", "required_by" or "returned"
    req_index,        \* the pattern the running loop is at
    is_fulfilled,     \* what ModRequirement.fulfilled returned
    mod_files,        \* mod_files of files_with_missing_requirements
    searched,         \* log: the patterns passed to find, in order
    game_files,       \* the names that exist in the game root folder
    modlist,          \* the mods of the profile, by priority
    mod_paths,        \* the active mods still to iterate
    mod_children,     \* the children of the mod folder still to iterate
    root_blacklist,   \* RootFileMapper.root_blacklist
    root_blacklist_existing,  \* RootFileMapper.root_blacklist_existing
    root_mappings,    \* the mappings yielded so far
    root_pc,          \* "idle", "new", "mods", "children" or "returned"
    requirement,      \* ModDataAndRequirementChecker.requirements (at most one)
    rules,            \* ModDataMappingChecker.ignore_patterns and .mappings
    tree,             \* the file tree
    tree0,            \* the file tree as it was handed over
    call,             \* "check", "fix", "recheck" or "none": the running call
    pc,               \* "new", "idle", "walk", "walked", "raised" or "done": the position
    filetree,         \* the argument of the running call
    stack,            \* the entries IFileTree.walk has still to visit
    root_tree,        \* TreeWalker.root_tree
    unknown_entries,  \* TreeWalker.unknown_entries
    mapping_counter,  \* TreeWalker.mapping_counter
    ignore_counter,   \* TreeWalker.ignore_counter
    check_status,     \* CheckTreeWalker.check_status
    action_queue,     \* FixTreeWalker._action_queue
    changed_folders,  \* FixTreeWalker._changed_folders
    walk_result,      \* what TreeWalker.walk returned
    verdict,          \* what dataLooksValid(tree) returned
    fixed,            \* what fix(tree) returned
    verdict2,         \* what dataLooksValid(fixed tree) returned
    visited,          \* log: the visits of the running walk attempt
    stopped           \* log: a visit of the running walk attempt returned STOP

reqVars == <<organizer, req_pc, req_index, is_fulfilled, mod_files, searched>>

rootVars ==
    <<game_files, modlist, mod_paths, mod_children, root_blacklist,
      root_blacklist_existing, root_mappings, root_pc>>

checkerVars ==
    <<requirement, rules, tree, tree0, call, pc, filetree, stack, root_tree,
      unknown_entries, mapping_counter, ignore_counter, check_status,
      action_queue, changed_folders, walk_result, verdict, fixed, verdict2,
      visited, stopped>>

subVars == <<sm_source, sm_target, sm_mapping, sm_i, sm_pc>>

vars == <<checkerVars, reqVars, rootVars, subVars>>

Unset == "unset"

\* fix has not returned yet.
Pending == -2

VALID == "VALID"

FIXABLE == "FIXABLE"

INVALID == "INVALID"

CONTINUE == "CONTINUE"

SKIP == "SKIP"

STOP == "STOP"

(***************************************************************************)
(* TreeWalker.visit_entry and the hooks of the three walker classes.       *)
(***************************************************************************)
\* A call that ends in an exception instead of a return value: the return
\* of the callback, the verdict of the check, the tree of the fix.
RAISE == "RAISE"

TypeError == "TypeError"

Raised == -3

Outcome(kind, index, pattern, target) ==
    [kind |-> kind, index |-> index, pattern |-> pattern, target |-> target]

\* A scan of the ignore patterns that looks for whole matches only.
RECURSIVE ScanIgnoreWholeOnly(_, _, _)
ScanIgnoreWholeOnly(patterns, i, entry_path) ==
    IF i > Len(patterns) THEN Outcome("none", 0, <<>>, <<>>)
    ELSE LET pattern == Normpath(patterns[i]) IN
         IF Fnmatch(entry_path, pattern) THEN Outcome("ignore", i, pattern, <<>>)
         ELSE ScanIgnoreWholeOnly(patterns, i + 1, entry_path)

\* The loop over ignore_patterns: the first pattern that matches the whole
\* path or has the path as leading folders decides.
RECURSIVE ScanIgnore(_, _, _)
ScanIgnore(patterns, i, entry_path) ==
    IF i > Len(patterns) THEN Outcome("none", 0, <<>>, <<>>)
    ELSE LET pattern == Normpath(patterns[i]) IN
         IF Fnmatch(entry_path, pattern) THEN Outcome("ignore", i, pattern, <<>>)
         ELSE IF IsRelativeTo(pattern, entry_path)
              THEN Outcome("continue", i, pattern, <<>>)
         ELSE ScanIgnore(patterns, i + 1, entry_path)

\* A scan of the mappings that takes a target that is not a string as it is.
RECURSIVE ScanMappingsAnyTarget(_, _, _)
ScanMappingsAnyTarget(mappings, i, entry_path) ==
    IF i > Len(mappings) THEN Outcome("none", 0, <<>>, <<>>)
    ELSE LET pattern == Normpath(mappings[i].pattern)
             target == IF IsStr(mappings[i].target)
                       THEN NormpathWithSlash(mappings[i].target)
                       ELSE mappings[i].target
         IN  IF Fnmatch(entry_path, pattern)
             THEN Outcome("mapping", i, pattern, target)
             ELSE IF IsRelativeTo(pattern, entry_path)
                  THEN Outcome("continue", i, pattern, target)
             ELSE ScanMappingsAnyTarget(mappings, i + 1, entry_path)

\* The loop over mappings.items(): normpath_with_slash(target) comes before
\* the match and raises a TypeError (os.path.split) for a target that is
\* not a string.
RECURSIVE ScanMappings(_, _, _)
ScanMappings(mappings, i, entry_path) ==
    IF i > Len(mappings) THEN Outcome("none", 0, <<>>, <<>>)
    ELSE IF ~IsStr(mappings[i].target)
         THEN Outcome("raise", i, Normpath(mappings[i].pattern), mappings[i].target)
    ELSE LET pattern == Normpath(mappings[i].pattern)
             target == NormpathWithSlash(mappings[i].target)
         IN  IF Fnmatch(entry_path, pattern)
             THEN Outcome("mapping", i, pattern, target)
             ELSE IF IsRelativeTo(pattern, entry_path)
                  THEN Outcome("continue", i, pattern, target)
             ELSE ScanMappings(mappings, i + 1, entry_path)

\* visit_entry up to the call of the hook: which hook, with which pattern.
VisitEntry(rs, entry_path) ==
    LET ig == ScanIgnore(rs.ignore_patterns, 1, entry_path) IN
    IF ig.kind # "none" THEN ig
    ELSE LET mp == ScanMappings(rs.mappings, 1, entry_path) IN
         IF mp.kind # "none" THEN mp
         ELSE Outcome("unmatched", 0, <<>>, <<>>)

\* A visit_unmatched that never stops the traversal.
VisitUnmatchedSkips(t, entry, unknown) == SKIP

\* TreeWalker.visit_unmatched: the value returned, unknown the list after the
\* append.
VisitUnmatched(t, entry, unknown) ==
    IF ~IsDir(t, entry) \/ Len(unknown) > 1 THEN STOP ELSE SKIP

\* The target asks for a change of the entry.
NeedsMove(target, entry_path) == target \notin {<<>>, entry_path}

\* A mapping_match of the check that ignores the target.
CheckMappingMatchKeeps(status, target, entry_path) == status

\* A mapping_match of the check that takes the status from the last match.
CheckMappingMatchUpgrades(status, target, entry_path) ==
    IF NeedsMove(target, entry_path) THEN FIXABLE ELSE VALID

\* CheckTreeWalker.mapping_match: the check_status after the match.
CheckMappingMatch(status, target, entry_path) ==
    IF status = VALID /\ NeedsMove(target, entry_path) THEN FIXABLE ELSE status

Action(op, entry, root, target) ==
    [op |-> op, entry |-> entry, root |-> root, target |-> target]

\* An ignore_match of the fix that queues nothing.
FixIgnoreMatchQueuesNothing(entry) == <<>>

\* FixTreeWalker.ignore_match: the action queued.
FixIgnoreMatch(entry) == <<Action("detach", entry, NoNode, <<>>)>>

\* A mapping_match of the fix that queues nothing.
FixMappingMatchQueuesNothing(root, entry, target, entry_path) == <<>>

\* FixTreeWalker.mapping_match: the actions queued (none for a kept entry).
FixMappingMatch(root, entry, target, entry_path) ==
    IF target = NoneTarget THEN <<>>
    ELSE IF target = FunctionTarget THEN <<Action("call", entry, root, target)>>
    ELSE IF NeedsMove(target, entry_path)
    THEN <<Action("move", entry, root, target)>>
    ELSE <<>>

\* The value visit_entry returns.
VisitReturn(t, out, entry, unknown) ==
    CASE out.kind = "ignore" -> SKIP
      [] out.kind = "mapping" -> SKIP
      [] out.kind = "continue" -> CONTINUE
      [] out.kind = "raise" -> RAISE
      [] OTHER -> VisitUnmatched(t, entry, unknown)

\* IFileTree.walk: the stack after the callback returned ret for its top.
WalkStack(t, stk, ret) ==
    LET top == Head(stk)
        sub == Entries(t, top.entry)
    IN  IF ret \in {STOP, RAISE} THEN <<>>
        ELSE IF ret = CONTINUE /\ IsDir(t, top.entry)
             THEN [i \in 1..Len(sub) |->
                      [path |-> top.path \o t[top.entry].name \o <<Sep>>,
                       entry |-> sub[i]]] \o Tail(stk)
        ELSE Tail(stk)

\* The stack IFileTree.walk starts with.
WalkInit(t, root) ==
    LET sub == Entries(t, root) IN
    [i \in 1..Len(sub) |-> [path |-> <<>>, entry |-> sub[i]]]

(***************************************************************************)
(* The walker object as a record, and the steps of TreeWalker.walk on it.  *)
(***************************************************************************)
\* A change of the root that keeps the queue and the changed folders of
\* the walker (the reset of TreeWalker alone).
ChangeRootTreeKeepsQueue(t, new_tree) ==
    [root_tree |-> new_tree,
     stack |-> WalkInit(t, new_tree),
     unknown_entries |-> <<>>,
     mapping_counter |-> 0,
     ignore_counter |-> 0,
     check_status |-> VALID,
     action_queue |-> action_queue,
     changed_folders |-> changed_folders,
     visited |-> <<>>,
     stopped |-> FALSE,
     raised |-> FALSE]

\* reset() of the walker classes, then root_tree = new_tree
\* (_change_root_tree), with the stack IFileTree.walk starts from.
ChangeRootTree(t, new_tree) ==
    [root_tree |-> new_tree,
     stack |-> WalkInit(t, new_tree),
     unknown_entries |-> <<>>,
     mapping_counter |-> 0,
     ignore_counter |-> 0,
     check_status |-> VALID,
     action_queue |-> <<>>,
     changed_folders |-> {},
     visited |-> <<>>,
     stopped |-> FALSE,
     raised |-> FALSE]

\* A record of the entry itself as the changed folder.
ChangedFolderSelf(t, entry) == entry

\* FixTreeWalker.ignore_match / mapping_match: the folder added to
\* _changed_folders with a queued action, the parent of the entry.
ChangedFolder(t, entry) == t[entry].parent

\* One call of visit_entry by IFileTree.walk, with the hook it calls; fixing
\* tells a FixTreeWalker from a CheckTreeWalker.
VisitStep(t, rs, fixing, w) ==
    LET entry == Head(w.stack).entry
        entry_path == PathJoin(Head(w.stack).path, t[entry].name)
        out == VisitEntry(rs, entry_path)
        unknown == IF out.kind = "unmatched"
                   THEN Append(w.unknown_entries, entry) ELSE w.unknown_entries
        ret == VisitReturn(t, out, entry, unknown)
        queued == IF ~fixing THEN <<>>
                  ELSE IF out.kind = "ignore" THEN FixIgnoreMatch(entry)
                  ELSE IF out.kind = "mapping"
                       THEN FixMappingMatch(w.root_tree, entry, out.target, entry_path)
                  ELSE <<>>
    IN  [root_tree |-> w.root_tree,
         stack |-> WalkStack(t, w.stack, ret),
         unknown_entries |-> unknown,
         mapping_counter |-> w.mapping_counter + (IF out.kind = "mapping" THEN 1 ELSE 0),
         ignore_counter |-> w.ignore_counter + (IF out.kind = "ignore" THEN 1 ELSE 0),
         check_status |-> IF ~fixing /\ out.kind = "mapping"
                          THEN CheckMappingMatch(w.check_status, out.target, entry_path)
                          ELSE w.check_status,
         action_queue |-> w.action_queue \o queued,
         changed_folders |-> IF queued # <<>>
                             THEN w.changed_folders \cup {ChangedFolder(t, entry)}
                             ELSE w.changed_folders,
         visited |-> Append(w.visited,
                            [entry |-> entry, entry_path |-> entry_path,
                             kind |-> out.kind, index |-> out.index,
                             target |-> out.target, ret |-> ret]),
         stopped |-> (ret = STOP),
         raised |-> (ret = RAISE)]

\* convert_entry_to_tree
ConvertEntryToTree(t, entry) == IF IsDir(t, entry) THEN entry ELSE NoNode

\* An unwrap that takes the folder the unknown folder is in.
UnwrapTreeParent(t, unknown, n_mappings) ==
    IF Len(unknown) = 1 /\ n_mappings = 0 /\ IsDir(t, unknown[1])
       /\ Children(t, unknown[1]) # {}
    THEN t[unknown[1]].parent ELSE NoNode

\* An unwrap that does not look at the number of mapping matches.
UnwrapTreeWithMappings(t, unknown, n_mappings) ==
    IF Len(unknown) = 1 /\ IsDir(t, unknown[1]) /\ Children(t, unknown[1]) # {}
    THEN unknown[1] ELSE NoNode

\* An unwrap that takes a folder at the top of the mod's tree only.
UnwrapTreeAtTop(t, unknown, n_mappings) ==
    IF Len(unknown) = 1 /\ n_mappings = 0 /\ IsDir(t, unknown[1])
       /\ Children(t, unknown[1]) # {} /\ t[unknown[1]].parent = RootNode
    THEN unknown[1] ELSE NoNode

\* The tree TreeWalker.walk recurses into after the traversal, NoNode if none
\* ("if tree" is false for None and for a tree without entries).
UnwrapTree(t, unknown, n_mappings) ==
    IF Len(unknown) = 1 /\ n_mappings = 0
    THEN LET sub == ConvertEntryToTree(t, unknown[1]) IN
         IF sub # NoNode /\ Children(t, sub) # {} THEN sub ELSE NoNode
    ELSE NoNode

\* A check that does not look at the root returned.
CheckStatusSameRoot(result_tree, ft, unknown, n_ignored, status) ==
    IF unknown # <<>> THEN INVALID
    ELSE IF n_ignored > 0 THEN FIXABLE
    ELSE status

\* A check that reports every root change as FIXABLE.
CheckStatusRootFixable(result_tree, ft, unknown, n_ignored, status) ==
    IF result_tree = ft
    THEN IF unknown # <<>> THEN INVALID
         ELSE IF n_ignored > 0 THEN FIXABLE
         ELSE status
    ELSE FIXABLE

\* A check that does not look at the ignore counter.
CheckStatusNoIgnore(result_tree, ft, unknown, n_ignored, status) ==
    IF result_tree = ft
    THEN IF unknown # <<>> THEN INVALID ELSE status
    ELSE IF unknown # <<>> THEN INVALID
         ELSE FIXABLE

\* A check that takes a single unknown entry for a wrapper to unfold.
CheckStatusOneUnknown(result_tree, ft, unknown, n_ignored, status) ==
    IF Len(unknown) > 1 THEN INVALID
    ELSE IF result_tree # ft \/ unknown # <<>> \/ n_ignored > 0 THEN FIXABLE
    ELSE status

\* CheckTreeWalker.check after walk returned: the status returned.
CheckStatus(result_tree, ft, unknown, n_ignored, status) ==
    IF result_tree = ft
    THEN IF unknown # <<>> THEN INVALID
         ELSE IF n_ignored > 0 THEN FIXABLE
         ELSE status
    ELSE IF unknown # <<>> THEN INVALID
         ELSE FIXABLE

\* A pop from the right end of the queue.
PopRight(queue) ==
    [action |-> queue[Len(queue)], rest |-> SubSeq(queue, 1, Len(queue) - 1)]

\* deque.popleft(): the action taken and the queue left.
PopLeft(queue) == [action |-> Head(queue), rest |-> Tail(queue)]

\* The effect of a queued BoundFunction on the tree (the function of a
\* custom action is one that changes nothing).
RunAction(t, action) ==
    IF action.op = "detach" THEN Detach(t, action.entry)
    ELSE IF action.op = "call" THEN t
    ELSE TreeMove(t, action.root, action.entry, action.target)

\* "if not self.ignore_patterns and not self.mappings" of dataLooksValid and fix.
NoRules(rs) == rs.ignore_patterns = <<>> /\ rs.mappings = <<>>

(***************************************************************************)
(* A whole call as a function of the tree (the same steps, run to the end; *)
(* the changed folders are pruned in a fixed order).                       *)
(***************************************************************************)
RECURSIVE WalkLoop(_, _, _, _)
WalkLoop(t, rs, fixing, w) ==
    IF w.stack = <<>> THEN w ELSE WalkLoop(t, rs, fixing, VisitStep(t, rs, fixing, w))

\* TreeWalker.walk: [result, w], the tree returned and the walker after it.
RECURSIVE WalkOf(_, _, _, _)
WalkOf(t, rs, fixing, ft) ==
    LET w == WalkLoop(t, rs, fixing, ChangeRootTree(t, ft))
        sub == UnwrapTree(t, w.unknown_entries, w.mapping_counter)
    IN  IF w.raised THEN [result |-> Raised, w |-> w]
        ELSE IF w.unknown_entries = <<>> THEN [result |-> ft, w |-> w]
        ELSE IF sub # NoNode THEN WalkOf(t, rs, fixing, sub)
        ELSE [result |-> NoNode, w |-> w]

\* ModDataMappingChecker.dataLooksValid
DataLooksValidOf(t, rs, ft) ==
    IF NoRules(rs) THEN VALID
    ELSE LET r == WalkOf(t, rs, FALSE, ft) IN
         IF r.result = Raised THEN TypeError
         ELSE
         CheckStatus(r.result, ft, r.w.unknown_entries, r.w.ignore_counter,
                     r.w.check_status)

RECURSIVE ReplayAll(_, _)
ReplayAll(t, queue) ==
    IF queue = <<>> THEN t
    ELSE ReplayAll(RunAction(t, PopLeft(queue).action), PopLeft(queue).rest)

RECURSIVE PruneAll(_, _)
PruneAll(t, folders) ==
    IF folders = {} THEN t
    ELSE LET f == CHOOSE x \in folders : TRUE IN
         PruneAll(RemoveEmptyTreeAndParents(t, f), folders \ {f})

\* ModDataMappingChecker.fix: [result, tree], the tree returned (NoNode for
\* None) and the nodes after the call.
FixOf(t, rs, ft) ==
    IF NoRules(rs) THEN [result |-> NoNode, tree |-> t]
    ELSE LET r == WalkOf(t, rs, TRUE, ft) IN
         IF r.result = Raised THEN [result |-> Raised, tree |-> t]
         ELSE
         [result |-> r.result,
          tree |-> PruneAll(ReplayAll(t, r.w.action_queue), r.w.changed_folders)]

(***************************************************************************)
(* The calls, step by step.                                                *)
(***************************************************************************)
walker ==
    [root_tree |-> root_tree, stack |-> stack, unknown_entries |-> unknown_entries,
     mapping_counter |-> mapping_counter, ignore_counter |-> ignore_counter,
     check_status |-> check_status, action_queue |-> action_queue,
     changed_folders |-> changed_folders, visited |-> visited, stopped |-> stopped,
     raised |-> (pc = "raised")]

walkerVars ==
    <<root_tree, stack, unknown_entries, mapping_counter, ignore_counter,
      check_status, action_queue, changed_folders, visited, stopped>>

SetWalker(w) ==
    /\ root_tree' = w.root_tree
    /\ stack' = w.stack
    /\ unknown_entries' = w.unknown_entries
    /\ mapping_counter' = w.mapping_counter
    /\ ignore_counter' = w.ignore_counter
    /\ check_status' = w.check_status
    /\ action_queue' = w.action_queue
    /\ changed_folders' = w.changed_folders
    /\ visited' = w.visited
    /\ stopped' = w.stopped

\* subfolder_mappings is not called on its own.
SubIdle ==
    /\ sm_source = <<>>
    /\ sm_target = NoneTarget
    /\ sm_mapping = <<>>
    /\ sm_i = 1
    /\ sm_pc = "idle"

\* No requirement is searched.
ReqIdle ==
    /\ organizer = TreeOf({})
    /\ req_pc = "idle"
    /\ req_index = 1
    /\ is_fulfilled = FALSE
    /\ mod_files = {}
    /\ searched = <<>>

\* No root mapper is asked for its mappings.
RootIdle ==
    /\ game_files = {}
    /\ modlist = <<>>
    /\ mod_paths = <<>>
    /\ mod_children = {}
    /\ root_blacklist = {}
    /\ root_blacklist_existing = TRUE
    /\ root_mappings = <<>>
    /\ root_pc = "idle"

Init ==
    /\ \/ rules \in RuleSets /\ requirement = NoRequirement
       \/ rules \in BaseRuleSets /\ requirement \in Requirements
    /\ tree \in {TreeOf(S) : S \in TreeShapes}
    /\ tree0 = tree
    /\ call = "check"
    /\ pc = "new"
    /\ filetree = RootNode
    /\ stack = <<>>
    /\ root_tree = NoNode
    /\ unknown_entries = <<>>
    /\ mapping_counter = 0
    /\ ignore_counter = 0
    /\ check_status = VALID
    /\ action_queue = <<>>
    /\ changed_folders = {}
    /\ walk_result = NoNode
    /\ verdict = Unset
    /\ fixed = Pending
    /\ verdict2 = Unset
    /\ visited = <<>>
    /\ stopped = FALSE
    /\ ReqIdle
    /\ RootIdle
    /\ SubIdle

\* The call that follows the return of the running one.
NextCall(c, result) ==
    IF c = "check" THEN "fix"
    ELSE IF c = "fix" /\ result # NoNode THEN "recheck"
    ELSE "none"

Return(result) ==
    /\ call' = NextCall(call, result)
    /\ pc' = IF NextCall(call, result) = "none" THEN "done" ELSE "idle"
    /\ filetree' = IF call = "fix" /\ result # NoNode THEN result
                   ELSE IF call = "check" THEN RootNode
                   ELSE filetree

\* ModDataAndRequirementChecker.__post_init__: the mappings of the
\* requirement are added to the mappings.
PostInit ==
    /\ pc = "new"
    /\ rules' = [rules EXCEPT
                    !.mappings = DictUpdate(@, ArchiveMapping(requirement))]
    /\ pc' = "idle"
    /\ UNCHANGED <<reqVars, rootVars, subVars>>
    /\ UNCHANGED <<requirement, tree, tree0, call, filetree, walk_result,
                   verdict, fixed, verdict2>>
    /\ UNCHANGED walkerVars

\* ModDataMappingChecker.dataLooksValid up to the start of the walk.
DataLooksValid ==
    /\ pc = "idle"
    /\ call \in {"check", "recheck"}
    /\ IF NoRules(rules)
       THEN /\ verdict' = IF call = "check" THEN VALID ELSE verdict
            /\ verdict2' = IF call = "recheck" THEN VALID ELSE verdict2
            /\ Return(NoNode)
            /\ UNCHANGED walkerVars
       ELSE /\ SetWalker(ChangeRootTree(tree, filetree))
            /\ pc' = "walk"
            /\ UNCHANGED <<call, filetree, verdict, verdict2>>
    /\ UNCHANGED <<reqVars, rootVars, subVars>>
    /\ UNCHANGED <<requirement, rules, tree, tree0, walk_result, fixed>>

\* ModDataMappingChecker.fix up to the start of the walk.
Fix ==
    /\ pc = "idle"
    /\ call = "fix"
    /\ IF NoRules(rules)
       THEN /\ fixed' = NoNode
            /\ Return(NoNode)
            /\ UNCHANGED walkerVars
       ELSE /\ SetWalker(ChangeRootTree(tree, filetree))
            /\ pc' = "walk"
            /\ UNCHANGED <<call, filetree, fixed>>
    /\ UNCHANGED <<reqVars, rootVars, subVars>>
    /\ UNCHANGED <<requirement, rules, tree, tree0, walk_result, verdict, verdict2>>

\* IFileTree.walk calls visit_entry for the next entry; a TypeError of
\* visit_entry ends the walk and the call of dataLooksValid or fix with it.
Visit ==
    /\ pc = "walk"
    /\ stack # <<>>
    /\ SetWalker(VisitStep(tree, rules, call = "fix", walker))
    /\ pc' = IF VisitStep(tree, rules, call = "fix", walker).raised
             THEN "raised" ELSE pc
    /\ UNCHANGED <<reqVars, rootVars, subVars>>
    /\ UNCHANGED <<requirement, rules, tree, tree0, call, filetree, walk_result,
                   verdict, fixed, verdict2>>

\* TreeWalker.walk after filetree.walk returned: return, or recurse.
WalkEnd ==
    /\ pc = "walk"
    /\ stack = <<>>
    /\ IF unknown_entries = <<>>
       THEN /\ walk_result' = root_tree
            /\ pc' = "walked"
            /\ UNCHANGED walkerVars
       ELSE IF UnwrapTree(tree, unknown_entries, mapping_counter) # NoNode
       THEN /\ SetWalker(ChangeRootTree(tree,
                   UnwrapTree(tree, unknown_entries, mapping_counter)))
            /\ UNCHANGED <<walk_result, pc>>
       ELSE /\ walk_result' = NoNode
            /\ pc' = "walked"
            /\ UNCHANGED walkerVars
    /\ UNCHANGED <<reqVars, rootVars, subVars>>
    /\ UNCHANGED <<requirement, rules, tree, tree0, call, filetree, verdict, fixed, verdict2>>

\* CheckTreeWalker.check after walk returned.
CheckReturn ==
    /\ pc = "walked"
    /\ call \in {"check", "recheck"}
    /\ check_status' = CheckStatus(walk_result, filetree, unknown_entries,
                                   ignore_counter, check_status)
    /\ verdict' = IF call = "check" THEN check_status' ELSE verdict
    /\ verdict2' = IF call = "recheck" THEN check_status' ELSE verdict2
    /\ Return(NoNode)
    /\ UNCHANGED <<reqVars, rootVars, subVars>>
    /\ UNCHANGED <<requirement, rules, tree, tree0, stack, root_tree, unknown_entries,
                   mapping_counter, ignore_counter, action_queue, changed_folders,
                   walk_result, fixed, visited, stopped>>

\* FixTreeWalker.fix, one turn of "while self._action_queue".
FixReplay ==
    /\ pc = "walked"
    /\ call = "fix"
    /\ action_queue # <<>>
    /\ tree' = RunAction(tree, PopLeft(action_queue).action)
    /\ action_queue' = PopLeft(action_queue).rest
    /\ UNCHANGED <<reqVars, rootVars, subVars>>
    /\ UNCHANGED <<requirement, rules, tree0, call, pc, filetree, stack, root_tree,
                   unknown_entries, mapping_counter, ignore_counter, check_status,
                   changed_folders, walk_result, verdict, fixed, verdict2, visited,
                   stopped>>

\* FixTreeWalker.fix, one turn of "while self._changed_folders": set.pop()
\* takes any folder of the set.
FixPrune ==
    /\ pc = "walked"
    /\ call = "fix"
    /\ action_queue = <<>>
    /\ \E folder \in changed_folders :
          /\ tree' = RemoveEmptyTreeAndParents(tree, folder)
          /\ changed_folders' = changed_folders \ {folder}
    /\ UNCHANGED <<reqVars, rootVars, subVars>>
    /\ UNCHANGED <<requirement, rules, tree0, call, pc, filetree, stack, root_tree,
                   unknown_entries, mapping_counter, ignore_counter, check_status,
                   action_queue, walk_result, verdict, fixed, verdict2, visited,
                   stopped>>

\* FixTreeWalker.fix: "return return_tree".
FixReturn ==
    /\ pc = "walked"
    /\ call = "fix"
    /\ action_queue = <<>>
    /\ changed_folders = {}
    /\ fixed' = walk_result
    /\ Return(walk_result)
    /\ UNCHANGED <<reqVars, rootVars, subVars>>
    /\ UNCHANGED <<requirement, rules, tree, tree0, stack, root_tree, unknown_entries,
                   mapping_counter, ignore_counter, check_status, action_queue,
                   changed_folders, walk_result, verdict, verdict2, visited,
                   stopped>>

Next ==
    \/ PostInit
    \/ DataLooksValid
    \/ Fix
    \/ Visit
    \/ WalkEnd
    \/ CheckReturn
    \/ FixReplay
    \/ FixPrune
    \/ FixReturn

Spec == Init /\ [][Next]_vars

\* The trees of wrapped folders: w, w/a, w/x.e, w/r.m, w/a/x.e, beside the
\* files r.m and x.e.
WrappedShapes == {S \in TreeShapes : S \subseteq {3, 4, 6, 12, 13, 14, 15}}

\* The checkers of the documentation, of the game and of a None target on
\* the trees of wrapped folders.
InitWrapped ==
    /\ Init
    /\ requirement = NoRequirement
    /\ rules \in {RulesDoc, RulesGame, RulesNone}
    /\ tree \in {TreeOf(S) : S \in WrappedShapes}

\* A call has returned or raised: no statement of the checker is left to run.
Ended == pc \in {"done", "raised"}

\* The calls run to their end: IFileTree.walk calls visit_entry for every
\* entry left, and walk, check and fix go on when it has returned.  This is
\* the weak fairness of Next, WF_vars(Next), written with the condition
\* under which no step of Next is possible: the call has ended.
FairSpec ==
    /\ InitWrapped
    /\ [][Next]_vars
    /\ ([]<>Ended \/ []<><<Next>>_vars)

(***************************************************************************)
(* ModRequirement.files_with_missing_requirements, one search at a time.   *)
(***************************************************************************)

\* No checker runs.
CheckerIdle ==
    /\ rules = RulesEmpty
    /\ tree = TreeOf({})
    /\ tree0 = tree
    /\ call = "none"
    /\ pc = "done"
    /\ filetree = RootNode
    /\ stack = <<>>
    /\ root_tree = NoNode
    /\ unknown_entries = <<>>
    /\ mapping_counter = 0
    /\ ignore_counter = 0
    /\ check_status = VALID
    /\ action_queue = <<>>
    /\ changed_folders = {}
    /\ walk_result = NoNode
    /\ verdict = Unset
    /\ fixed = Pending
    /\ verdict2 = Unset
    /\ visited = <<>>
    /\ stopped = FALSE

\* files_with_missing_requirements is called: mod_files = set() and the
\* call of fulfilled begins.
InitReq ==
    /\ CheckerIdle
    /\ RootIdle
    /\ SubIdle
    /\ requirement \in SearchedRequirements
    /\ organizer \in {TreeOf(S) : S \in TreeShapes}
    /\ req_pc = "fulfilled"
    /\ req_index = 1
    /\ is_fulfilled = FALSE
    /\ mod_files = {}
    /\ searched = <<>>

\* One turn of all(find(p, organizer) for p in self.installs): the next
\* pattern is searched, and an empty result ends the call with False.
FulfilledStep ==
    /\ req_pc = "fulfilled"
    /\ req_index <= Len(requirement.installs)
    /\ searched' = Append(searched, requirement.installs[req_index])
    /\ IF Truthy(Find(requirement.installs[req_index], organizer))
       THEN /\ req_index' = req_index + 1
            /\ UNCHANGED <<req_pc, is_fulfilled>>
       ELSE /\ is_fulfilled' = FALSE
            /\ req_pc' = "required_by"
            /\ req_index' = 1
    /\ UNCHANGED <<organizer, mod_files>>
    /\ UNCHANGED <<checkerVars, rootVars, subVars>>

\* The generator is exhausted: fulfilled returns True and
\* files_with_missing_requirements returns the empty mod_files.
FulfilledEnd ==
    /\ req_pc = "fulfilled"
    /\ req_index > Len(requirement.installs)
    /\ is_fulfilled' = TRUE
    /\ req_pc' = "returned"
    /\ UNCHANGED <<organizer, req_index, mod_files, searched>>
    /\ UNCHANGED <<checkerVars, rootVars, subVars>>

\* One turn of for p in self.required_by.
RequiredByStep ==
    /\ req_pc = "required_by"
    /\ req_index <= Len(requirement.required_by)
    /\ mod_files' =
           SetUpdate(mod_files, Find(requirement.required_by[req_index], organizer))
    /\ req_index' = req_index + 1
    /\ UNCHANGED <<organizer, req_pc, is_fulfilled, searched>>
    /\ UNCHANGED <<checkerVars, rootVars, subVars>>

\* return mod_files
MissingReturn ==
    /\ req_pc = "required_by"
    /\ req_index > Len(requirement.required_by)
    /\ req_pc' = "returned"
    /\ UNCHANGED <<organizer, req_index, is_fulfilled, mod_files, searched>>
    /\ UNCHANGED <<checkerVars, rootVars, subVars>>

NextReq ==
    \/ FulfilledStep
    \/ FulfilledEnd
    \/ RequiredByStep
    \/ MissingReturn

ReqSpec == InitReq /\ [][NextReq]_vars

(***************************************************************************)
(* RootFileMapper.mappings, one mod child at a time.  The names of the     *)
(* game root and of the mod folders are whole strings here; the file       *)
(* system is the one of Windows, where exists() does not tell the case of  *)
(* letters apart.  root_mod_folder is "" (the entire mod folder) and every *)
(* mod folder exists.                                                      *)
(***************************************************************************)

\* str.casefold() on the names used.
Casefold(name) == IF name = "Bin" THEN "bin" ELSE name

\* Path.exists() of game_path / name.
Exists(name, files) == \E f \in files : Casefold(f) = Casefold(name)

\* The name of the data folder of the game in the game root.
DataDir == "data"

\* root_extra_overwrite_files
RootExtraOverwriteFiles == <<"y.cfg">>

Child(name, is_dir) == [name |-> name, is_dir |-> is_dir]

Mod(name, active, children) ==
    [name |-> name, active |-> active, children |-> children]

\* The contents of a mod folder: a folder or file "Bin", a folder "data", a
\* file "x.dll", each there or not.
ModFolders ==
    {B \cup D \cup X :
        B \in {{}, {Child("Bin", TRUE)}, {Child("Bin", FALSE)}},
        D \in {{}, {Child("data", TRUE)}},
        X \in {{}, {Child("x.dll", FALSE)}}}

\* The mod lists of the profile: one mod, or an inactive or active mod of
\* one file before it.
ModLists ==
    {<<Mod("m1", TRUE, c)>> : c \in ModFolders}
    \cup {<<Mod("m0", a, {Child("x.dll", FALSE)}), Mod("m1", TRUE, c)>> :
              a \in BOOLEAN, c \in ModFolders}

\* mobase.Mapping
Mapping(source, destination, is_directory, create_target) ==
    [source |-> source, destination |-> destination,
     is_directory |-> is_directory, create_target |-> create_target]

\* RootFileMapper._mod_mapping
ModMapping(mod_name, child, destination) ==
    Mapping(<<"mods", mod_name, child.name>>, destination, child.is_dir, FALSE)

\* RootFileMapper._overwrite_mapping
OverwriteMapping(name, destination, is_dir) ==
    Mapping(<<"overwrite", name>>, destination, is_dir, TRUE)

\* RootFileMapper._extra_overwrite_mappings
ExtraOverwriteMappings(files) ==
    LET missing == SelectSeq(RootExtraOverwriteFiles, LAMBDA f : ~Exists(f, files))
    IN  [i \in 1..Len(missing) |-> OverwriteMapping(missing[i], missing[i], FALSE)]

\* RootFileMapper._active_mod_paths
ActiveModPaths(mods) == SelectSeq(mods, LAMBDA mod : mod.active)

\* RootFileMapper._root_mappings, the body of "for child in
\* mod_path.iterdir()": the mappings yielded for the child.  A blacklisted
\* name is skipped; for an existing destination the code logs a warning
\* and goes on, so blacklist_existing and files do not change the result.
RootMappingsOfChild(mod_name, child, blacklist, blacklist_existing, files) ==
    IF Casefold(child.name) \in blacklist THEN <<>>
    ELSE <<ModMapping(mod_name, child, child.name)>>
         \o (IF child.is_dir
             THEN <<OverwriteMapping(child.name, child.name, TRUE)>>
             ELSE <<>>)

\* RootFileMapper.__init__ and the call of mappings.
InitRoot ==
    /\ CheckerIdle
    /\ requirement = NoRequirement
    /\ ReqIdle
    /\ SubIdle
    /\ game_files \in SUBSET {"bin", "x.dll", "y.cfg"}
    /\ modlist \in ModLists
    /\ mod_paths = <<>>
    /\ mod_children = {}
    /\ root_blacklist \in {{Casefold(b) : b \in B} : B \in {{}, {"Bin"}}}
    /\ root_blacklist_existing \in BOOLEAN
    /\ root_mappings = <<>>
    /\ root_pc = "new"

\* RootFileMapper.mappings up to the first mod: the data folder is added
\* to the blacklist and the extra overwrite mappings are yielded.
Mappings ==
    /\ root_pc = "new"
    /\ root_blacklist' = root_blacklist \cup {DataDir}
    /\ root_mappings' = ExtraOverwriteMappings(game_files)
    /\ mod_paths' = ActiveModPaths(modlist)
    /\ root_pc' = "mods"
    /\ UNCHANGED <<game_files, modlist, mod_children, root_blacklist_existing>>
    /\ UNCHANGED <<checkerVars, reqVars, subVars>>

\* for mod_path in self._active_mod_paths()
NextMod ==
    /\ root_pc = "mods"
    /\ mod_paths # <<>>
    /\ mod_children' = Head(mod_paths).children
    /\ root_pc' = "children"
    /\ UNCHANGED <<game_files, modlist, mod_paths, root_blacklist,
                   root_blacklist_existing, root_mappings>>
    /\ UNCHANGED <<checkerVars, reqVars, subVars>>

\* for child in mod_path.iterdir(), in any order
RootMappingChild ==
    /\ root_pc = "children"
    /\ \E child \in mod_children :
           /\ root_mappings' =
                  root_mappings \o RootMappingsOfChild(Head(mod_paths).name, child,
                                                       root_blacklist,
                                                       root_blacklist_existing,
                                                       game_files)
           /\ mod_children' = mod_children \ {child}
    /\ UNCHANGED <<game_files, modlist, mod_paths, root_blacklist,
                   root_blacklist_existing, root_pc>>
    /\ UNCHANGED <<checkerVars, reqVars, subVars>>

\* The children of the mod are exhausted.
ModDone ==
    /\ root_pc = "children"
    /\ mod_children = {}
    /\ mod_paths' = Tail(mod_paths)
    /\ root_pc' = "mods"
    /\ UNCHANGED <<game_files, modlist, mod_children, root_blacklist,
                   root_blacklist_existing, root_mappings>>
    /\ UNCHANGED <<checkerVars, reqVars, subVars>>

\* mappings returns the list.
MappingsReturn ==
    /\ root_pc = "mods"
    /\ mod_paths = <<>>
    /\ root_pc' = "returned"
    /\ UNCHANGED <<game_files, modlist, mod_paths, mod_children, root_blacklist,
                   root_blacklist_existing, root_mappings>>
    /\ UNCHANGED <<checkerVars, reqVars, subVars>>

NextRoot ==
    \/ Mappings
    \/ NextMod
    \/ RootMappingChild
    \/ ModDone
    \/ MappingsReturn

RootSpec == InitRoot /\ [][NextRoot]_vars

(***************************************************************************)
(* subfolder_mappings, one assignment to the mapping at a time.            *)
(***************************************************************************)

\* The target folders passed: None, a folder with and without a trailing
\* separator, a path of two folders, the empty string.
TargetFolders ==
    { NoneTarget,
      <<"p", "/">>,
      <<"p">>,
      <<"p", "/", "q", "\\">>,
      <<"p", "/", "q">>,
      <<>> }

\* The mappings passed: a new one, and one that holds a pattern already.
GivenMappings ==
    { <<>>,
      << Map(<<"*", ".", "e">>, <<"a", "\\">>) >>,
      << Map(<<"b", "\\", "*", ".", "e">>, <<>>), Map(<<"*", ".", "t">>, <<"b", "\\">>) >> }

InitSub ==
    /\ CheckerIdle
    /\ requirement = NoRequirement
    /\ ReqIdle
    /\ RootIdle
    /\ sm_source \in SourcePatterns
    /\ sm_target \in TargetFolders
    /\ sm_mapping \in GivenMappings
    /\ sm_i = 1
    /\ sm_pc = "new"

\* The folder and the file pattern of the normalised source pattern.
SourceFolder == PathSplit(sm_source)[1]

FilePattern == PathSplit(sm_source)[2]

\* subfolder_mappings up to the loop: the source pattern is normalised and
\* kept, the target folder is derived or normalised.
SubfolderStart ==
    /\ sm_pc = "new"
    /\ sm_source' = Normpath(sm_source)
    /\ sm_mapping' = DictSet(sm_mapping, Normpath(sm_source), <<>>)
    /\ sm_target' = TargetFolder(PathSplit(Normpath(sm_source))[1], sm_target)
    /\ sm_i' = 1
    /\ sm_pc' = "loop"
    /\ UNCHANGED <<checkerVars, reqVars, rootVars>>

\* One turn of "for i in range(1, len(parts))".
SubfolderSuffix ==
    /\ sm_pc = "loop"
    /\ sm_i < Len(Parts(SourceFolder))
    /\ sm_mapping' =
           DictSet(sm_mapping,
                   JoinAll(Append(SubSeq(Parts(SourceFolder), sm_i + 1,
                                         Len(Parts(SourceFolder))),
                                  FilePattern)),
                   sm_target)
    /\ sm_i' = sm_i + 1
    /\ UNCHANGED <<sm_source, sm_target, sm_pc>>
    /\ UNCHANGED <<checkerVars, reqVars, rootVars>>

\* The loop has ended.
SubfolderLoopEnd ==
    /\ sm_pc = "loop"
    /\ sm_i >= Len(Parts(SourceFolder))
    /\ sm_pc' = "file"
    /\ UNCHANGED <<sm_source, sm_target, sm_mapping, sm_i>>
    /\ UNCHANGED <<checkerVars, reqVars, rootVars>>

\* "if file_pattern and file_pattern != '*'", and the return of the mapping.
SubfolderReturn ==
    /\ sm_pc = "file"
    /\ sm_mapping' = IF FilePattern # <<>> /\ FilePattern # <<"*">>
                     THEN DictSet(sm_mapping, FilePattern, sm_target)
                     ELSE sm_mapping
    /\ sm_pc' = "returned"
    /\ UNCHANGED <<sm_source, sm_target, sm_i>>
    /\ UNCHANGED <<checkerVars, reqVars, rootVars>>

NextSub ==
    \/ SubfolderStart
    \/ SubfolderSuffix
    \/ SubfolderLoopEnd
    \/ SubfolderReturn

SubSpec == InitSub /\ [][NextSub]_vars

(***************************************************************************)
(* Positions used by the properties.                                       *)
(***************************************************************************)
Done == pc = "done"

\* dataLooksValid(tree) has just returned: the walker is as check left it.
CheckReturned == call = "fix" /\ pc = "idle"

\* fix(tree) has just returned a tree: the walker is as fix left it.
FixReturned == call = "recheck" /\ pc = "idle"

\* dataLooksValid(fixed tree) has just returned.
RecheckReturned == pc = "done" /\ verdict2 # Unset

\* A CheckTreeWalker has just returned from check: its fields are as check
\* left them, filetree is the tree it was called with.
Checked == (CheckReturned \/ RecheckReturned) /\ ~NoRules(rules)

\* The path of node n below tree r, as visit_entry builds it.
EntryPath(t, r, n) == JoinComps(NamesFrom(t, r, n))

\* The visit asked for a change of the entry.
MovedBy(v) == v.kind = "mapping" /\ NeedsMove(v.target, v.entry_path)

\* The visit accepted the entry where it is.
KeptBy(v) == v.kind = "mapping" /\ ~NeedsMove(v.target, v.entry_path)

Visits == {visited[i] : i \in 1..Len(visited)}

\* The stepwise calls return what the calls as functions of the tree return.
RunsAgree ==
    /\ verdict # Unset => verdict = DataLooksValidOf(tree0, rules, RootNode)
    /\ fixed # Pending => fixed = FixOf(tree0, rules, RootNode).result
    /\ (fixed # Pending /\ fixed # NoNode) =>
          Content(FixOf(tree0, rules, RootNode).tree, fixed) = Content(tree, fixed)

(***************************************************************************)
(* Properties.                                                             *)
(***************************************************************************)
\* The visits of the last walk attempt of fix on the tree as it was passed.
FixVisits ==
    LET w == WalkOf(tree0, rules, TRUE, RootNode).w IN
    {w.visited[i] : i \in 1..Len(w.visited)}

\* The rules keep whatever is at the path of node n of the returned tree:
\* the first hit of the path is a mapping that asks for no change.
KeptAt(n) ==
    LET entry_path == EntryPath(tree, fixed, n)
        out == VisitEntry(rules, entry_path)
    IN  out.kind = "mapping" /\ ~NeedsMove(out.target, entry_path)

\* Node n is in the returned tree at a path the rules keep, below folders
\* the walk continues into or keeps.
Settled(n) ==
    /\ n \in Below(tree, fixed)
    /\ KeptAt(n)
    /\ \A m \in Below(tree, fixed) :
           m # n /\ IsAncestorOrSelf(tree, m, n) =>
               \/ VisitEntry(rules, EntryPath(tree, fixed, m)).kind = "continue"
               \/ KeptAt(m)

\* C1 as stated: classifying the tree a successful fix returned yields VALID.
C1_Idempotent == RecheckReturned => verdict2 = VALID

\* C1, amended: classifying the tree a successful fix returned yields VALID
\* when every entry the fix queued a move for is, in the returned tree, at a
\* path the rules keep.
C1_IdempotentWhenSettled ==
    RecheckReturned /\ (\A v \in FixVisits : MovedBy(v) => Settled(v.entry))
        => verdict2 = VALID

\* A fix has moved an entry and removed another, and the result was checked.
C1_Witness ==
    /\ RecheckReturned
    /\ verdict = FIXABLE
    /\ \E v \in FixVisits : MovedBy(v) /\ Settled(v.entry)
    /\ \E v \in FixVisits : v.kind = "ignore"
    /\ verdict2 = VALID

\* C2 as stated: a fix that returns None leaves the tree as it was.
C2_FailedFixUntouched == fixed = NoNode => tree = tree0

\* The only entry of the root is a directory no pattern matches or leads
\* into, and its contents classify VALID when checked as a tree of their own.
IsValidWrapper(wrapper) ==
    /\ ~NoRules(rules)
    /\ Children(tree0, RootNode) = {wrapper}
    /\ IsDir(tree0, wrapper)
    /\ VisitEntry(rules, tree0[wrapper].name).kind = "unmatched"
    /\ DataLooksValidOf(tree0, rules, wrapper) = VALID

\* C3 as stated: check and fix of a root that only wraps valid contents give
\* the verdict and the content that check and fix of the contents give.
C3_UnwrapSame ==
    \A wrapper \in DOMAIN tree0 :
        Done /\ IsValidWrapper(wrapper) =>
            /\ verdict = DataLooksValidOf(tree0, rules, wrapper)
            /\ fixed = FixOf(tree0, rules, wrapper).result
            /\ Content(tree, fixed) = Content(FixOf(tree0, rules, wrapper).tree, fixed)

\* C3, amended: fix of a root that only wraps valid contents, the wrapper not
\* empty, returns the wrapper with the content that fix of the contents
\* gives; check of the root gives FIXABLE (the root was replaced) where check
\* of the contents gives VALID.
C3_UnwrapSameContent ==
    \A wrapper \in DOMAIN tree0 :
        Done /\ IsValidWrapper(wrapper) /\ Children(tree0, wrapper) # {} =>
            /\ verdict = FIXABLE
            /\ fixed = wrapper
            /\ fixed = FixOf(tree0, rules, wrapper).result
            /\ Content(tree, fixed) = Content(FixOf(tree0, rules, wrapper).tree, fixed)
            /\ verdict2 = VALID

\* A wrapped valid tree with content two levels deep has been checked and fixed.
C3_Witness ==
    \E wrapper \in DOMAIN tree0 :
        /\ Done
        /\ IsValidWrapper(wrapper)
        /\ fixed = wrapper
        /\ \E n \in Below(tree, wrapper) : tree[n].parent # wrapper

\* C4 as stated: check returns VALID only if every visited node fully matched
\* a mapping that keeps it, no ignore match occurred and the root was kept.
C4_ValidOnlyIfAllKept ==
    Checked /\ check_status = VALID =>
        /\ \A v \in Visits : KeptBy(v)
        /\ ignore_counter = 0
        /\ root_tree = filetree

\* C4, amended: check returns VALID only if every visited node fully matched
\* a mapping that keeps it or is a leading folder of a pattern (the walk
\* continued into it), no ignore match occurred and the root was kept.
C4_ValidOnlyIfKeptOrContinued ==
    Checked /\ check_status = VALID =>
        /\ \A v \in Visits : KeptBy(v) \/ v.kind = "continue"
        /\ ignore_counter = 0
        /\ root_tree = filetree

\* A VALID tree with a file below a leading folder has been checked.
C4_Witness ==
    /\ Checked
    /\ check_status = VALID
    /\ \E v \in Visits : v.kind = "continue"
    /\ \E v \in Visits : KeptBy(v)

\* C5: check returns INVALID exactly when the last walk attempt ended with
\* an unmatched node in unknown_entries.
C5_InvalidIffUnknown ==
    Checked => /\ check_status = INVALID <=> unknown_entries # <<>>
               /\ CheckReturned => verdict = check_status
               /\ RecheckReturned => verdict2 = check_status

\* An INVALID verdict after an unwrap: the wrapper holds an unmatched entry.
C5_Witness ==
    /\ CheckReturned
    /\ ~NoRules(rules)
    /\ verdict = INVALID
    /\ root_tree # filetree
    /\ mapping_counter + ignore_counter > 0

\* C6: check returns FIXABLE when the last walk attempt left no unmatched
\* node and a match asked for a move, or an ignore match occurred, or the
\* root was replaced.
C6_FixableWhenChange ==
    (/\ Checked
     /\ unknown_entries = <<>>
     /\ \/ \E v \in Visits : MovedBy(v)
        \/ \E v \in Visits : v.kind = "ignore"
        \/ root_tree # filetree)
    => check_status = FIXABLE

\* FIXABLE by an ignore match alone.
C6_Witness ==
    /\ CheckReturned
    /\ verdict = FIXABLE
    /\ ignore_counter > 0
    /\ mapping_counter > 0
    /\ root_tree = filetree
    /\ \A v \in Visits : ~MovedBy(v)

\* Node n of the returned tree fully matches an ignore pattern.
MatchesIgnore(t, r, n) ==
    \E i \in 1..Len(rules.ignore_patterns) :
        Fnmatch(EntryPath(t, r, n), Normpath(rules.ignore_patterns[i]))

\* C7 as stated: the tree a successful fix returns holds no entry whose path
\* fully matches an ignore pattern.
C7_NoIgnoredLeft ==
    FixReturned => \A n \in Below(tree, fixed) : ~MatchesIgnore(tree, fixed, n)

\* C7, amended: the tree a successful fix returns holds no entry for which
\* the walk called ignore_match (entries below a folder that a mapping
\* matched as a whole are not visited and stay).
C7_NoIgnoreMatchLeft ==
    FixReturned => \A v \in Visits : v.kind = "ignore" => v.entry \notin Below(tree, fixed)

\* A fix that met an ignore match next to kept entries has returned.
C7_Witness ==
    /\ FixReturned
    /\ \E v \in Visits : v.kind = "ignore"
    /\ Below(tree, fixed) # {}

\* The path a visit that asks for a move sends its entry to: into the target
\* folder under its own name, or to the target itself.
Destination(v) ==
    IF IsSep(v.target[Len(v.target)])
    THEN v.target \o tree0[v.entry].name
    ELSE v.target

\* Nothing else is or comes where the visit sends its entry.
DestinationFree(v) ==
    /\ \A n \in Below(tree0, fixed) : EntryPath(tree0, fixed, n) # Destination(v)
    /\ \A u \in Visits : MovedBy(u) /\ u # v => Destination(u) # Destination(v)

\* C8: an entry a mapping with a target ending in a separator moves is, in
\* the tree a successful fix returns, in the target folder under its own name
\* (when no other entry is or comes there); the check said FIXABLE, and the
\* folder it left, if empty and not the returned root, is gone.
C8_MovedIntoFolder ==
    FixReturned =>
        \A v \in Visits :
            MovedBy(v) /\ IsSep(v.target[Len(v.target)]) /\ DestinationFree(v) =>
                /\ verdict = FIXABLE
                /\ v.entry \in Below(tree, fixed)
                /\ EntryPath(tree, fixed, v.entry)
                       = v.target \o tree0[v.entry].name
                /\ LET folder == tree0[v.entry].parent IN
                   folder # fixed /\ Children(tree, folder) = {}
                       => folder \notin Below(tree, fixed)

\* {"a/*.e": "b/"} on a tree with a/x.e only: x.e is in b, a is gone.
C8_Witness ==
    /\ FixReturned
    /\ rules = RulesMove
    /\ fixed = RootNode
    /\ verdict = FIXABLE
    /\ \E v \in Visits : MovedBy(v) /\ v.entry_path = <<"a", Sep, "x", ".", "e">>
    /\ {EntryPath(tree, fixed, n) : n \in Below(tree, fixed)}
           = {<<"b">>, <<"b", Sep, "x", ".", "e">>}

\* Every node of the non-empty tree t fully matches an ignore pattern of rs.
EveryNodeIgnored(t, rs) ==
    /\ Below(t, RootNode) # {}
    /\ \A n \in Below(t, RootNode) :
           \E i \in 1..Len(rs.ignore_patterns) :
               Fnmatch(EntryPath(t, RootNode, n), Normpath(rs.ignore_patterns[i]))

\* The first pattern hit of every node of t without entries is a full match
\* of an ignore pattern.
LeavesDecidedIgnored(t, rs) ==
    \A n \in Below(t, RootNode) :
        Children(t, n) = {} => VisitEntry(rs, EntryPath(t, RootNode, n)).kind = "ignore"

\* C9 as stated: if every node of a non-empty tree matches an ignore pattern,
\* check returns FIXABLE and fix returns the root with no entries.
C9_AllIgnoredEmptied ==
    EveryNodeIgnored(tree0, rules) =>
        /\ verdict # Unset => verdict = FIXABLE
        /\ fixed # Pending => fixed = RootNode /\ Children(tree, RootNode) = {}

\* C9, amended: if every node of a non-empty tree matches an ignore pattern
\* and no node without entries is first hit as the leading folder of an
\* earlier pattern, check returns FIXABLE and fix returns the root with no
\* entries.
C9_AllIgnoredLeavesEmptied ==
    EveryNodeIgnored(tree0, rules) /\ LeavesDecidedIgnored(tree0, rules) =>
        /\ verdict # Unset => verdict = FIXABLE
        /\ fixed # Pending => fixed = RootNode /\ Children(tree, RootNode) = {}

\* A tree of ignored entries, one of them in a folder, has been emptied.
C9_Witness ==
    /\ FixReturned
    /\ EveryNodeIgnored(tree0, rules)
    /\ LeavesDecidedIgnored(tree0, rules)
    /\ \E n \in Below(tree0, RootNode) : tree0[n].parent # RootNode
    /\ fixed = RootNode
    /\ Children(tree, RootNode) = {}

\* C10: an unmatched file, or a second unmatched folder of one attempt, ends
\* the traversal: visit_entry returns STOP, no entry is visited after it,
\* unknown_entries never holds more than two entries, the root is not
\* replaced, walk returns None, check returns INVALID and fix returns None.
C10_StopOnUnmatched ==
    /\ \A i \in 1..Len(visited) :
           /\ visited[i].kind = "unmatched" =>
                  (visited[i].ret = STOP <=>
                      \/ ~IsDir(tree, visited[i].entry)
                      \/ \E k \in 1..(i - 1) : visited[k].kind = "unmatched")
           /\ visited[i].ret = STOP => i = Len(visited) /\ stopped
    /\ Len(unknown_entries) <= 2
    /\ stopped /\ pc = "walk" =>
           /\ stack = <<>>
           /\ unknown_entries # <<>>
           /\ UnwrapTree(tree, unknown_entries, mapping_counter) = NoNode
    /\ stopped /\ pc = "walked" => walk_result = NoNode
    /\ stopped /\ CheckReturned => verdict = INVALID
    /\ stopped /\ FixReturned => fixed = NoNode
    /\ stopped /\ RecheckReturned => verdict2 = INVALID

\* A check stopped at an unmatched file while entries it would have visited
\* were still ahead.
C10_Witness ==
    /\ CheckReturned
    /\ stopped
    /\ verdict = INVALID
    /\ \E n \in Children(tree, root_tree) : \A v \in Visits : v.entry # n

\* The checker was built from no rules of its own and one requirement with
\* the single required_by pattern p: its mappings are subfolder_mappings(p).
ExpandedFrom(p) ==
    /\ pc # "new"
    /\ requirement = Requirement(<<p>>, <<>>)
    /\ rules.ignore_patterns = <<>>

\* The places at which the tree may hold x.e, and the folders on the way.
OptionalPlaces ==
    { <<"a">>, <<"a", Sep, "b">>, <<"a", Sep, "b", Sep, "x", ".", "e">>,
      <<"b">>, <<"b", Sep, "x", ".", "e">>, <<"x", ".", "e">> }

\* The tree holds x.e at a/b/x.e, at b/x.e or at x.e, and nothing else.
HoldsAtOptionalPlace(t) ==
    /\ \A n \in Below(t, RootNode) : EntryPath(t, RootNode, n) \in OptionalPlaces
    /\ \E n \in Below(t, RootNode) : ~IsDir(t, n)

\* C11: with the mappings of subfolder_mappings("a/b/*.e"), a tree that holds
\* x.e at a/b/x.e, at b/x.e or at x.e is not INVALID, and fix returns the root
\* with the file at a/b/x.e; and "*" is no key of the mappings of a pattern
\* ending in "/*".
C11_SubfolderOptional ==
    /\ ExpandedFrom(<<"a", "/", "b", "/", "*", ".", "e">>)
           /\ HoldsAtOptionalPlace(tree0) =>
          /\ verdict # Unset => verdict \in {VALID, FIXABLE}
          /\ fixed # Pending =>
                /\ fixed = RootNode
                /\ \E n \in Below(tree, fixed) : ~IsDir(tree, n)
                /\ \A n \in Below(tree, fixed) :
                       ~IsDir(tree, n) =>
                           EntryPath(tree, fixed, n)
                               = <<"a", Sep, "b", Sep, "x", ".", "e">>
    /\ ExpandedFrom(<<"a", "/", "b", "/", "*">>) =>
          /\ <<"*">> \notin Keys(rules.mappings)
          /\ Keys(rules.mappings) = {<<"a", Sep, "b", Sep, "*">>, <<"b", Sep, "*">>}

\* x.e was at b/x.e and at x.e, and is at a/b/x.e after the fix.
C11_Witness ==
    /\ ExpandedFrom(<<"a", "/", "b", "/", "*", ".", "e">>)
    /\ FixReturned
    /\ {EntryPath(tree0, RootNode, n) : n \in Below(tree0, RootNode)}
           = {<<"b">>, <<"b", Sep, "x", ".", "e">>, <<"x", ".", "e">>}
    /\ {EntryPath(tree, fixed, n) : n \in Below(tree, fixed)}
           = {<<"a">>, <<"a", Sep, "b">>, <<"a", Sep, "b", Sep, "x", ".", "e">>}

\* The keys and targets subfolder_mappings is said to add for the normalized
\* pattern p: p kept; with folders f1..fn and file pattern q, the suffixes
\* f2..fn/q up to fn/q and, unless q is "*", q itself, all to f1/../fn/.
ExpansionOf(p) ==
    LET comps == Comps(p)
        n == Len(comps) - 1
        q == comps[n + 1]
        target == JoinComps(SubSeq(comps, 1, n)) \o <<Sep>>
    IN  IF n = 0 THEN {<<p, <<>> >>}
        ELSE {<<p, <<>> >>}
                 \cup {<<JoinComps(SubSeq(comps, k + 1, n + 1)), target>> : k \in 1..(n - 1)}
                 \cup (IF q # <<"*">> THEN {<<q, target>>} ELSE {})

\* C12: subfolder_mappings(p) holds exactly the source pattern mapped to "",
\* each shorter suffix of the folders joined with the file pattern, and the
\* file pattern unless it is "*", mapped to the source folder; {p: ""} for a
\* pattern without folder.
C12_ExpansionShape ==
    \A p \in SourcePatterns :
        ExpandedFrom(p) =>
            /\ {<<rules.mappings[i].pattern, rules.mappings[i].target>> :
                    i \in 1..Len(rules.mappings)} = ExpansionOf(Normpath(p))
            /\ Len(rules.mappings) = Cardinality(ExpansionOf(Normpath(p)))

\* A pattern three folders deep has been expanded to four mappings.
C12_Witness ==
    /\ \E p \in SourcePatterns : ExpandedFrom(p) /\ Len(Parts(p)) = 4
    /\ Len(rules.mappings) = 4
    /\ call = "check"
    /\ pc = "idle"


(***************************************************************************)
(* Requirements searched in the virtual file system.                       *)
(***************************************************************************)

\* The paths of a list, as a set.
Found(list) == {list[i] : i \in 1..Len(list)}

\* Every pattern of installs has a result.
AllInstalled ==
    \A i \in 1..Len(requirement.installs) :
        Find(requirement.installs[i], organizer) # <<>>

\* fulfilled has returned.
FulfilledReturned == req_pc \in {"required_by", "returned"}

\* C13: fulfilled returns true if and only if every pattern of installs
\* has at least one result of find; it returns false at the first pattern
\* without a result, no later pattern is searched.
C13_FulfilledIffAllFound ==
    FulfilledReturned =>
        /\ is_fulfilled <=> AllInstalled
        /\ searched = SubSeq(requirement.installs, 1, Len(searched))
        /\ ~is_fulfilled =>
               /\ searched # <<>>
               /\ Find(searched[Len(searched)], organizer) = <<>>
               /\ \A i \in 1..(Len(searched) - 1) :
                      Find(searched[i], organizer) # <<>>

\* fulfilled returned false at the first of two patterns, and the second
\* one has a result.
C13_Witness ==
    /\ req_pc = "returned"
    /\ ~is_fulfilled
    /\ Len(requirement.installs) = 2
    /\ Len(searched) = 1
    /\ Find(requirement.installs[2], organizer) # <<>>

\* The union of the results of find over the patterns of required_by.
RequiredByFiles ==
    UNION {Found(Find(requirement.required_by[i], organizer)) :
               i \in 1..Len(requirement.required_by)}

\* C14: files_with_missing_requirements returns the empty set when the
\* requirement is fulfilled, and otherwise exactly the union of the results
\* of find over all patterns of required_by.
C14_MissingFiles ==
    req_pc = "returned" =>
        mod_files = IF AllInstalled THEN {} ELSE RequiredByFiles

\* An unfulfilled requirement whose two required_by patterns each add a
\* file the other one does not find.
C14_Witness ==
    /\ req_pc = "returned"
    /\ ~AllInstalled
    /\ Len(requirement.required_by) = 2
    /\ Found(Find(requirement.required_by[1], organizer)) \ 
           Found(Find(requirement.required_by[2], organizer)) # {}
    /\ Found(Find(requirement.required_by[2], organizer)) \ 
           Found(Find(requirement.required_by[1], organizer)) # {}
    /\ mod_files = RequiredByFiles

(***************************************************************************)
(* The replay of the recorded actions.                                     *)
(***************************************************************************)

\* s is a prefix of t.
IsPrefix(s, t) == Len(s) <= Len(t) /\ SubSeq(t, 1, Len(s)) = s

\* The fix has ended its traversal and not returned yet.
Replaying == call = "fix" /\ pc = "walked"

\* One step of the checker, as the claim C15 allows it.
DeferredInOrder ==
    /\ tree' # tree => Replaying
    /\ (call = "fix" /\ pc = "walk") =>
           \/ IsPrefix(action_queue, action_queue')
           \/ action_queue' = <<>> /\ root_tree' # root_tree
    /\ (Replaying /\ action_queue # <<>>) =>
           /\ tree' = RunAction(tree, Head(action_queue))
           /\ action_queue' = Tail(action_queue)
           /\ changed_folders' = changed_folders
    /\ (Replaying /\ changed_folders' # changed_folders) => action_queue = <<>>

\* C15: while FixTreeWalker traverses the tree no action is executed (the
\* tree changes only after the traversal has ended); the recorded actions
\* are appended to the queue and run from its head, in the order in which
\* they were recorded, and no folder is pruned before the queue is empty.
C15_DeferredReplayInOrder == [][DeferredInOrder]_vars

\* The first of several recorded actions has run and changed the tree, the
\* next one is due, no folder has been pruned yet.
C15_Witness ==
    /\ Replaying
    /\ action_queue # <<>>
    /\ tree # tree0
    /\ Cardinality(changed_folders) >= 2

(***************************************************************************)
(* The folders left by the repair.                                         *)
(***************************************************************************)

\* fix has returned a tree.
FixReturnedTree == fixed # Pending /\ fixed # NoNode

\* The folders of the tree given to fix that had entries and have none now.
Emptied == {n \in DOMAIN tree0 : IsDir(tree0, n) /\ Children(tree0, n) # {}
                                  /\ Children(tree, n) = {}}

\* C16: after fix has returned a tree, no folder that lost its entries (by a
\* replayed detach or move, or by the removal of an emptied folder in it) is
\* left in the returned tree without entries.
C16_NoEmptiedDirectoryLeft ==
    FixReturnedTree => Emptied \cap Below(tree, fixed) = {}

\* A folder in a folder lost its only entry: both are gone from the returned
\* tree, which keeps another entry.
C16_Witness ==
    /\ FixReturnedTree
    /\ Below(tree, fixed) # {}
    /\ \E n \in Emptied : /\ tree0[n].parent \in Emptied
                          /\ tree0[n].parent # fixed
                          /\ IsAncestorOrSelf(tree0, fixed, n)

(***************************************************************************)
(* The order in which the changed folders are drained.                     *)
(***************************************************************************)

\* The fix removes the folders emptied: the queue has been replayed.
Pruning == Replaying /\ action_queue = <<>>

\* C17: check returns the verdict and fix the tree that the calls return as
\* functions of the tree and the rule set, whatever the order in which
\* set.pop() drains the changed folders: at every point of the pruning, the
\* folders left to drain lead to the same tree.
C17_DrainOrderIndependent ==
    LET f == FixOf(tree0, rules, RootNode) IN
    /\ CheckReturned => verdict = DataLooksValidOf(tree0, rules, RootNode)
    /\ Pruning =>
           /\ walk_result = f.result
           /\ Content(PruneAll(tree, changed_folders), RootNode)
                  = Content(f.tree, RootNode)
    /\ FixReturned =>
           /\ fixed = f.result
           /\ Content(tree, RootNode) = Content(f.tree, RootNode)
           /\ fixed # NoNode => Content(tree, fixed) = Content(f.tree, fixed)

\* Two changed folders without entries, one in the other, are left to
\* drain: either can be taken first.
C17_Witness ==
    /\ Pruning
    /\ \E f \in changed_folders, g \in changed_folders :
           /\ tree[f].parent = g
           /\ Children(tree, f) = {}
           /\ Children(tree, g) = {f}

(***************************************************************************)
(* The mappings of the root folder.                                        *)
(***************************************************************************)

\* C18 as stated: with root_blacklist_existing, no mapping is yielded for a
\* mod child whose destination exists in the game root, neither the one of
\* the mod nor the one of overwrite.
C18_ExistingNotMapped ==
    root_blacklist_existing =>
        \A i \in 1..Len(root_mappings) :
            ~Exists(root_mappings[i].destination, game_files)

(***************************************************************************)
(* The reach of the removal of empty folders.                              *)
(***************************************************************************)

\* The tree fix returns and the folders above it, in the tree given to fix.
ReturnedAndAbove == {n \in DOMAIN tree0 : IsAncestorOrSelf(tree0, n, fixed)}

\* C19 as stated: the removal of empty folders never detaches the tree that
\* fix returns nor a folder above it: each is still where it was in the
\* tree given to fix.
C19_PruneStopsAtRoot ==
    FixReturnedTree =>
        \A n \in ReturnedAndAbove : tree[n].parent = tree0[n].parent

(***************************************************************************)
(* The order of the replay.                                                *)
(***************************************************************************)

\* The orders in which the actions of a queue can be executed.
Orders(queue) ==
    LET n == Len(queue)
        perms == {f \in [1..n -> 1..n] : \A i, j \in 1..n : f[i] = f[j] => i = j}
    IN  {[i \in 1..n |-> queue[f[i]]] : f \in perms}

\* The replay of the queue on t leaves the same tree in every order.
AnyOrderSameTree(t, queue) ==
    \A q \in Orders(queue) :
        Content(ReplayAll(t, q), RootNode) = Content(ReplayAll(t, queue), RootNode)

\* The paths from the root r of the walk that an action touches: the one of
\* its entry and, for a move, the one the entry is moved to.
Touched(t, r, action) ==
    {NamesFrom(t, r, action.entry)}
    \cup (IF action.op = "move"
          THEN {Parts(IF IsSep(action.target[Len(action.target)])
                      THEN action.target \o t[action.entry].name
                      ELSE action.target)}
          ELSE {})

\* No path touched by an action leads to or through a path touched by
\* another action of the queue.
Independent(t, r, queue) ==
    \A i, j \in 1..Len(queue) :
        i # j => \A x \in Touched(t, r, queue[i]), y \in Touched(t, r, queue[j]) :
                     ~IsPrefix(x, y)

\* The traversal of the fix ends.
TraversalEnds == call = "fix" /\ pc = "walk" /\ pc' = "walked"

\* C20 as stated: when the traversal of a fix ends, the replay of the
\* recorded detach and move actions leaves the same tree in every order of
\* execution.
C20_AnyOrder == [][TraversalEnds => AnyOrderSameTree(tree', action_queue')]_vars

\* C20, amended: when the traversal of a fix ends and no path touched by a
\* recorded action (the path of its entry, the path a move sends it to)
\* leads to or through a path touched by another one, the replay of the
\* recorded actions leaves the same tree in every order of execution.
C20_AnyOrderWhenIndependent ==
    [][(TraversalEnds /\ Independent(tree', root_tree', action_queue'))
           => AnyOrderSameTree(tree', action_queue')]_vars

\* The traversal has ended with two moves into one folder and nothing
\* replayed yet, and the actions are independent.
C20_Witness ==
    /\ Replaying
    /\ tree = tree0
    /\ Len(action_queue) >= 2
    /\ \A i \in 1..Len(action_queue) : action_queue[i].op = "move"
    /\ action_queue[1].target = action_queue[2].target
    /\ Independent(tree, root_tree, action_queue)

(***************************************************************************)
(* The unwrap of a single unknown folder.                                  *)
(***************************************************************************)

\* filetree.walk has returned to TreeWalker.walk.
AttemptEnds == pc = "walk" /\ stack = <<>>

\* TreeWalker.walk calls itself with another root.
Retries == pc' = "walk" /\ root_tree' # root_tree

\* The attempt ended with one unmatched node, a folder, and no mapping match.
SingleUnknownFolder ==
    /\ Len(unknown_entries) = 1
    /\ IsDir(tree, unknown_entries[1])
    /\ mapping_counter = 0

\* walk returns None.
ReturnsNone == pc' = "walked" /\ walk_result' = NoNode

Checking == call \in {"check", "recheck"} /\ pc \in {"walk", "walked"}

\* C22: once the check_status of a CheckTreeWalker is no longer VALID, no
\* later step of that walker (a match, the reset of an unwrap retry, the
\* final status of check) sets it back to VALID.
C22_StatusNeverUpgraded ==
    [][(Checking /\ check_status # VALID) => check_status' # VALID]_vars

\* A check goes on after a match has made the status FIXABLE, and has
\* since met an entry that a mapping keeps where it is.
C22_Witness ==
    /\ Checking
    /\ check_status = FIXABLE
    /\ \E i, j \in 1..Len(visited) :
           i < j /\ MovedBy(visited[i]) /\ KeptBy(visited[j])

(***************************************************************************)
(* The reset of the walker at every attempt.                               *)
(***************************************************************************)

\* An attempt begins: the first walk of a call, or an unwrap retry.
AttemptBegins == pc' = "walk" /\ (pc # "walk" \/ root_tree' # root_tree)

\* C23: at the start of every attempt (the first walk and every unwrap
\* retry) the counters are 0, unknown_entries is empty and so are the action
\* queue and the changed folders; an action that is executed is one of an
\* entry below the root of the last attempt, none of an earlier attempt;
\* when fix has returned the queue and the changed folders are empty.
C23_ResetPerAttempt ==
    [][/\ AttemptBegins =>
              /\ mapping_counter' = 0
              /\ ignore_counter' = 0
              /\ unknown_entries' = <<>>
              /\ action_queue' = <<>>
              /\ changed_folders' = {}
       /\ (Replaying /\ action_queue # <<>>) =>
              Head(action_queue).entry \in Below(tree0, root_tree)
       /\ fixed' # Pending => action_queue' = <<>> /\ changed_folders' = {}]_vars

\* fix has returned an unwrapped folder; an ignored entry beside it, whose
\* detach was recorded in the attempt given up, is still where it was.
C23_Witness ==
    /\ FixReturnedTree
    /\ fixed # RootNode
    /\ tree0[fixed].parent = RootNode
    /\ \E n \in Children(tree, RootNode) \ {fixed} :
           VisitEntry(rules, EntryPath(tree0, RootNode, n)).kind = "ignore"

(***************************************************************************)
(* Targets that are not strings.                                           *)
(***************************************************************************)

\* The first hit of the path among the patterns is the full match of a
\* mapping with the target given, when targets are taken as they are.
FirstMatchHasTarget(entry_path, target) ==
    /\ ScanIgnore(rules.ignore_patterns, 1, entry_path).kind = "none"
    /\ ScanMappingsAnyTarget(rules.mappings, 1, entry_path).kind = "mapping"
    /\ ScanMappingsAnyTarget(rules.mappings, 1, entry_path).target = target

\* C24 as stated: when a visited node matches a mapping whose target is a
\* function, the check walker has the status FIXABLE (INVALID once check
\* has found unknown entries), and the fix walker has recorded the parent
\* of the node as changed and queued the call of the function with the
\* node and the root tree, which the replay takes from the queue.
C24_FunctionTargetQueued ==
    \A i \in 1..Len(visited) :
        FirstMatchHasTarget(visited[i].entry_path, FunctionTarget) =>
            /\ visited[i].ret = SKIP
            /\ (call \in {"check", "recheck"} /\ pc = "walk")
                   => check_status = FIXABLE
            /\ (call = "fix" /\ pc = "walk") =>
                   /\ \E k \in 1..Len(action_queue) :
                          action_queue[k] = Action("call", visited[i].entry,
                                                   root_tree, FunctionTarget)
                   /\ tree[visited[i].entry].parent \in changed_folders

\* C25 as stated: visit_entry returns SKIP, CONTINUE or STOP for every node
\* and every rule set, mappings with a function or None as target included;
\* no call of dataLooksValid or fix ends in an exception.
C25_VisitEntryTotal ==
    /\ \A i \in 1..Len(visited) : visited[i].ret \in {SKIP, CONTINUE, STOP}
    /\ pc # "raised"

(***************************************************************************)
(* The targets subfolder_mappings writes.                                  *)
(***************************************************************************)

\* C26 as stated: every move target in the mapping subfolder_mappings
\* returns (every target that is not the empty string) ends with a path
\* separator, for a target folder derived from the source pattern and for
\* one passed explicitly.
C26_TargetsEndWithSeparator ==
    sm_pc = "returned" =>
        \A k \in 1..Len(sm_mapping) :
            sm_mapping[k].target # <<>> =>
                IsSep(sm_mapping[k].target[Len(sm_mapping[k].target)])

(***************************************************************************)
(* The end of the walk.                                                    *)
(***************************************************************************)

\* The number of folders between the root of the mod's tree and n.
Depth(n) == Len(NamesFrom(tree, RootNode, n))

\* C27: TreeWalker.walk terminates (it returns, or ends with the exception
\* of a visit); every unwrap retry has a root strictly deeper than the one
\* before, and a walk that retried ends with a tree or None.
C27_WalkTerminates ==
    /\ [][(AttemptEnds /\ Retries) => Depth(root_tree') > Depth(root_tree)]_vars
    /\ (pc = "walk") ~> (pc \in {"walked", "raised"})
    /\ (pc = "walk" /\ root_tree # filetree) ~> (pc = "walked")

\* A walk has returned the folder it reached with a second retry.
C27_Witness ==
    /\ pc = "walked"
    /\ walk_result \in DOMAIN tree
    /\ Depth(walk_result) >= 2


(***************************************************************************)
(* C28: dataLooksValid and fix on the same tree.                           *)
(***************************************************************************)
\* fix has returned, a tree or None (dataLooksValid returned before it, on
\* the same tree).
FixEnded == fixed # Pending

\* C28 as stated, the checker without rules included: fix returns None
\* exactly when dataLooksValid returned INVALID, and a tree exactly when it
\* returned VALID or FIXABLE.
C28_FixNoneIffInvalid ==
    FixEnded =>
        /\ fixed = NoNode <=> verdict = INVALID
        /\ fixed # NoNode <=> verdict \in {VALID, FIXABLE}

\* C28 for a checker that has an ignore pattern or a mapping: fix returns
\* None exactly when dataLooksValid returned INVALID, and a tree exactly
\* when it returned VALID or FIXABLE.
C28_FixNoneIffInvalidWithRules ==
    (FixEnded /\ ~NoRules(rules)) =>
        /\ fixed = NoNode <=> verdict = INVALID
        /\ fixed # NoNode <=> verdict \in {VALID, FIXABLE}

\* fix has returned None for a tree with entries that dataLooksValid found
\* INVALID under rules that are not empty.
C28_Witness ==
    /\ FixEnded
    /\ ~NoRules(rules)
    /\ Below(tree0, RootNode) # {}
    /\ fixed = NoNode
    /\ verdict = INVALID


(***************************************************************************)
(* C29: the order in which the patterns are tried.                         *)
(***************************************************************************)
\* The patterns in the order of the claim: the ignore patterns, then the
\* mappings in insertion order.
AllPatterns(rs) ==
    [k \in 1..(Len(rs.ignore_patterns) + Len(rs.mappings)) |->
        IF k <= Len(rs.ignore_patterns)
        THEN [kind |-> "ignore", index |-> k,
              pattern |-> Normpath(rs.ignore_patterns[k])]
        ELSE [kind |-> "mapping", index |-> k - Len(rs.ignore_patterns),
              pattern |-> Normpath(rs.mappings[k - Len(rs.ignore_patterns)].pattern)]]

\* The pattern matches the whole path, or the path is one of its leading
\* folders.
Hits(pattern, entry_path) ==
    Fnmatch(entry_path, pattern) \/ IsRelativeTo(pattern, entry_path)

\* The position of the first pattern that hits the path, 0 if none does.
FirstHit(rs, entry_path) ==
    LET ps == AllPatterns(rs)
        hits == {k \in DOMAIN ps : Hits(ps[k].pattern, entry_path)}
    IN  IF hits = {} THEN 0 ELSE CHOOSE k \in hits : \A j \in hits : k <= j

\* The visit v was decided by the first pattern that hits its path.
DecidedByFirstHit(rs, v) ==
    LET ps == AllPatterns(rs)
        k == FirstHit(rs, v.entry_path)
    IN  IF v.kind = "raise"
        THEN k = 0 \/ k >= Len(rs.ignore_patterns) + v.index
        ELSE IF k = 0 THEN v.kind = "unmatched"
        ELSE IF Fnmatch(v.entry_path, ps[k].pattern)
             THEN v.kind = ps[k].kind /\ v.index = ps[k].index
        ELSE v.kind = "continue" /\ v.index = ps[k].index /\ v.ret = CONTINUE

\* C29: every call of visit_entry is decided by the first pattern, the
\* ignore patterns in order and then the mappings in insertion order, that
\* matches the whole path or has the path as leading folders; when the path
\* is only a leading folder of that pattern the call returns CONTINUE and
\* changes no counter, no list of unknown entries, no status and no queue.
\* (A call that raises does so before any pattern has hit.)
C29_FirstHitDecides ==
    [][Len(visited') = Len(visited) + 1 =>
        LET v == visited'[Len(visited')] IN
        /\ DecidedByFirstHit(rules, v)
        /\ v.kind = "continue" =>
              /\ v.ret = CONTINUE
              /\ mapping_counter' = mapping_counter
              /\ ignore_counter' = ignore_counter
              /\ unknown_entries' = unknown_entries
              /\ check_status' = check_status
              /\ action_queue' = action_queue
              /\ changed_folders' = changed_folders]_vars

\* A folder was continued into for a pattern it leads to, although a later
\* pattern matches the folder itself.
C29_Witness ==
    \E i \in 1..Len(visited) :
        LET v == visited[i]
            ps == AllPatterns(rules)
        IN  /\ v.kind = "continue"
            /\ mapping_counter = 0
            /\ ignore_counter = 0
            /\ unknown_entries = <<>>
            /\ \E k \in DOMAIN ps :
                   /\ k > FirstHit(rules, v.entry_path)
                   /\ Fnmatch(v.entry_path, ps[k].pattern)


(***************************************************************************)
(* C30: the unknown folder may lie anywhere in the tree.                   *)
(***************************************************************************)
\* C30: an attempt that ends with a single unmatched folder (one that has
\* entries) and no mapping match is followed by a retry rooted at that
\* folder, wherever the folder lies and whatever was ignored; the paths of
\* the visits and the trees of the queued moves are those of the root of the
\* attempt, and walk and fix return that root.
C30_UnwrapAtAnyDepth ==
    [][/\ (AttemptEnds /\ SingleUnknownFolder
            /\ Children(tree, unknown_entries[1]) # {})
           => (pc' = "walk" /\ root_tree' = unknown_entries[1])
       /\ Len(visited') = Len(visited) + 1
           => LET v == visited'[Len(visited')] IN
              v.entry_path = EntryPath(tree, root_tree, v.entry)
       /\ \A i \in 1..Len(action_queue') :
              action_queue'[i].op = "move" => action_queue'[i].root = root_tree'
       /\ (pc = "walk" /\ pc' = "walked" /\ walk_result' # NoNode)
           => walk_result' = root_tree
       /\ (fixed = Pending /\ fixed' \notin {Pending, NoNode})
           => fixed' = root_tree]_vars

\* fix has walked a folder that lies below a folder continued into (it
\* leads to a pattern), beside an ignored entry, and has a move to replay.
C30_Witness ==
    /\ pc = "walked"
    /\ call = "fix"
    /\ walk_result = root_tree
    /\ root_tree \in DOMAIN tree
    /\ root_tree # filetree
    /\ tree[root_tree].parent \in DOMAIN tree \ {filetree}
    /\ VisitEntry(rules, EntryPath(tree, filetree, tree[root_tree].parent)).kind
           = "continue"
    /\ \E n \in Below(tree, filetree) \ Below(tree, root_tree) :
           VisitEntry(rules, EntryPath(tree, filetree, n)).kind = "ignore"
    /\ \E i \in 1..Len(action_queue) :
           /\ action_queue[i].op = "move"
           /\ action_queue[i].root = root_tree

=========================================================================
